---- MODULE Spec2Model ----
(***************************************************************************)
(* State-machine model of virtManager/engine.py (vmmEngine): the tick      *)
(* queue (a bounded queue.PriorityQueue), the "Tick thread" worker that    *)
(* drains it, the foreground handlers that fill it (tick and the           *)
(* priority-tick signal), and the window counter.                          *)
(*                                                                         *)
(* Two threads act on the tick queue: the foreground (GLib main loop),     *)
(* whose handlers run one at a time, and the tick thread.  queue.full(),   *)
(* queue.put() and queue.get() are each atomic (the queue's mutex), so     *)
(* _add_obj_to_tick_queue is two steps of the foreground (the full()       *)
(* check, then the put()) between which the tick thread may run.           *)
(***************************************************************************)
EXTENDS Integers, Sequences, FiniteSets, TLC

VARIABLES
    connobjs,          \* vmmConnectionManager.conns: the URIs that have a connection
    connstates,        \* keys of vmmEngine._connstates
    tick_queue,        \* self._tick_queue: the queued tuples, in arrival order
    tick_counter,      \* self._tick_counter
    tick_thread_slow,  \* self._tick_thread_slow
    slow_logged,       \* how often "Tick is slow, ..." was written to the log
    last_add,          \* what the latest _add_obj_to_tick_queue call did: "added",
                       \* "full_logged" (returned early, notice logged), "full_silent"
    tick_thread,       \* per tick thread: position in _handle_tick_queue, local conn/kwargs
    fg,                \* the foreground handler in progress (idle when none)
    idle,              \* callbacks posted with idle_add, oldest first
    err_out,           \* where the latest _handle_tick_error put its message
    timer,             \* self.timer: GLib source id, 0 for None
    timeouts,          \* GLib timeout sources installed for self.tick
    windows,           \* self.windows
    n_inc,             \* calls of increment_window_counter so far
    n_dec,             \* calls of decrement_window_counter so far
    visible,           \* top-level windows currently shown
    systray,           \* self._systray: "none", "hidden" or "visible"
    err,               \* self.err is not None
    quit,              \* self._application.quit() has been called
    n_quit,            \* calls of self._application.quit() so far
    exit_reqs,         \* "action-exit-app" emissions whose handler has not run yet
    cleanup_calls,     \* what exit_app did, in the order of its statements
    connstate,         \* values of vmmEngine._connstates: the _ConnState of a URI
    handlers,          \* per URI: the signals of its connection object that
                       \* _add_conn connected, in the order of the connect calls
    cleaned,           \* the windows whose cleanup() was called
    found,             \* the latest _find_vm_by_cli_str call: its inputs and result
    conn_state,        \* per URI: state of the connection object
    sc_pending,        \* per URI: "state-changed" emissions not yet delivered
    n_sc,              \* state changes of connection objects so far
    idle_calls,        \* calls posted with idle_add that carry arguments
    emit_todo,         \* handlers still to call in the signal emission in progress
    cli_cbs,           \* _cli_conn_connected_cb connections made by connect_opt_out
    n_cmds,            \* CLI commands handled so far
    cli,               \* per CLI command: what was done for it
    autostart,         \* autostart_conns: its thread's position and local data
    connections_queue, \* connections_queue of autostart_conns
    auto_conns,        \* auto_conns of autostart_conns
    auto_cbs,          \* URIs whose connection has state_change_cb connected
    auto_opens,        \* URIs whose connect_to_uri the autostart thread posted
    auto_seen,         \* URIs whose state_change_cb ran
    stats_update_interval, \* config.get_stats_update_interval(), in seconds
    source_interval,   \* per GLib source id: the interval timeout_add was given
    interval_changed,  \* changes of the interval whose reschedule_timer call is still to come
    n_sched            \* calls of reschedule_timer so far

vars == <<connobjs, connstates, tick_queue, tick_counter, tick_thread_slow,
          slow_logged, last_add, tick_thread, fg, idle, err_out, timer,
          timeouts, windows, n_inc, n_dec, visible, systray, err, quit,
          n_quit, exit_reqs, cleanup_calls, connstate, handlers, cleaned,
          found, conn_state, sc_pending, n_sc, idle_calls, emit_todo, cli_cbs, n_cmds,
          cli, autostart, connections_queue, auto_conns, auto_cbs, auto_opens,
          auto_seen, stats_update_interval, source_interval, interval_changed,
          n_sched>>

queue_vars == <<connobjs, connstates, tick_queue, tick_counter, tick_thread_slow,
                slow_logged, last_add, tick_thread, fg, timer, timeouts>>

window_vars == <<windows, n_inc, n_dec, visible, systray, err, quit,
                 n_quit, exit_reqs, cleanup_calls>>

reg_vars == <<connstate, handlers, cleaned>>

find_vars == <<found>>

conn_vars == <<conn_state, sc_pending, n_sc, idle_calls, emit_todo>>

cli_vars == <<cli_cbs, n_cmds, cli>>

auto_vars == <<autostart, connections_queue, auto_conns, auto_cbs, auto_opens,
               auto_seen>>

sched_vars == <<stats_update_interval, source_interval, interval_changed,
                n_sched>>

ext_vars == <<find_vars, sched_vars, conn_vars, cli_vars, auto_vars>>

----------------------------------------------------------------------------
(* Bounds of the model *)

\* Capacity of the tick queue.  The program passes 100 to queue.PriorityQueue
\* (engine.py:98); nothing else in the program depends on the value, and the
\* model runs the same code with a small capacity so that the full queue is
\* reached.
maxsize == 3

\* The model stops changing the polling interval once reschedule_timer ran
\* this often.
MaxReschedules == 2

\* The values of the stats-update-interval setting, in seconds, and the one
\* the program starts with
Intervals == {1, 3, 5}

DefaultInterval == 3

\* GLib source ids: timeout_add returns a new one on every call
SourceIds == 1..(MaxReschedules + 1)

\* The model accepts no further request once _tick_counter has reached this.
MaxTickCounter == 4

\* The model stops counting window events once this many increments happened.
MaxWindowEvents == 3

\* The model lets at most this many exit requests wait for their handler.
MaxExitRequests == 2

\* The model handles at most this many CLI commands.
MaxCliCommands == 1

\* The model stops changing the state of connections after this many changes.
MaxStateChanges == 2

Uris == {"connA", "connB", "connC"}

\* The order in which the connection manager's conns are iterated
UriOrder == <<"connA", "connB", "connC">>

Windows == {"manager", "details", "host"}

\* Connection keys of the VMs a details window is opened for
Connkeys == {"vm1", "vm2"}

----------------------------------------------------------------------------
(* Values *)

PRIO_HIGH == 1
PRIO_LOW == 2

\* kwargs of the periodic tick: stats_update=True, pollvm=True
TickKwargs == [stats_update |-> TRUE, pollvm |-> TRUE]

\* kwargs a connection passes with its "priority-tick" signal
PrioKwargs == {[stats_update |-> FALSE, pollvm |-> TRUE]}

NoKwargs == [stats_update |-> FALSE, pollvm |-> FALSE]

NoItem == [prio |-> 0, seq |-> 0, conn |-> "", kwargs |-> NoKwargs]

FgIdle == [pc |-> "idle", caller |-> "", idx |-> 0, obj |-> "",
           isprio |-> FALSE, kwargs |-> NoKwargs, item |-> NoItem]

\* _ConnState(uri, probe): no window yet
_ConnState(probe) ==
    [probeConnection |-> probe, windowClone |-> FALSE,
     windowDetails |-> {}, windowHost |-> FALSE]

\* What the model keeps for a URI that has no entry in _connstates
NoConnState == _ConnState(FALSE)

\* Faulty variant: the callbacks are connected twice
ConnSignalsTwice ==
    <<"vm-removed", "vm-renamed", "state-changed", "connect-error",
      "priority-tick", "vm-removed", "vm-renamed", "state-changed",
      "connect-error", "priority-tick">>

\* The signals of a new connection object that _add_conn connects
ConnSignals ==
    <<"vm-removed", "vm-renamed", "state-changed", "connect-error",
      "priority-tick">>

\* A Python int and a Python str: values of the two types are never equal
PyInt(i) == [type |-> "int", i |-> i, s |-> ""]

PyStr(str) == [type |-> "str", i |-> 0, s |-> str]

\* Strings passed as the domain of a CLI command
CliStrs == {"42", "7", "web", "u1", "u2"}

\* str.isdigit()
isdigit(str) == str \in {"42", "7"}

\* int(str), for a str of digits
int(str) == CASE str = "42" -> 42 [] str = "7" -> 7 [] OTHER -> 0

\* The VMs a connection may list: get_id() is -1 for a VM that is not
\* running
VmPool ==
    [id : {-1, 7, 42}, name : {"42", "web", "u1"}, uuid : {"u1", "u2"},
     connkey : {"vm1", "vm2"}]

\* conn.list_vms(): up to two VMs, with different names, UUIDs and keys
VmLists ==
    {<<>>} \cup {<<v>> : v \in VmPool}
    \cup {vw \in {<<v, w>> : v \in {x \in VmPool : x.connkey = "vm1"},
                              w \in {x \in VmPool : x.connkey = "vm2"}} :
             /\ vw[1].name # vw[2].name
             /\ vw[1].uuid # vw[2].uuid
             /\ vw[1].id # vw[2].id \/ vw[1].id = -1}

\* None, where a VM is expected
NoVm == [id |-> -1, name |-> "", uuid |-> "", connkey |-> ""]

\* The state of a connection object
ConnStates == {"disconnected", "connecting", "active"}

\* What the model keeps for a CLI command that was not handled yet
NoCli == [uri |-> "", show_window |-> "", deferred |-> FALSE, opens |-> 0,
          launched |-> 0, errors |-> 0, failed |-> FALSE, checks |-> 0,
          done |-> FALSE]

CLI_SHOW_MANAGER == "manager"
CLI_SHOW_DOMAIN_CONSOLE == "console"

\* The CLI commands of the model (uri, show_window, domain, and whether a
\* call inside the handler raises): none of the three given; a URI with the
\* console of a VM the connection has or has not, and with a window kind
\* that is none; a command whose handler raises
CliCommands ==
    {<<"", "", "", FALSE>>, <<"connA", "console", "42", FALSE>>,
     <<"connA", "console", "7", FALSE>>, <<"connA", "bogus", "", FALSE>>,
     <<"connA", "console", "42", TRUE>>}

\* list_vms() of a connection a CLI command names
CliVms == <<[id |-> 42, name |-> "web", uuid |-> "u1", connkey |-> "vm1"]>>

\* A call posted with idle_add
IdleCall(fn, uri, show_window, domain, cmd) ==
    [fn |-> fn, uri |-> uri, show_window |-> show_window, domain |-> domain,
     cmd |-> cmd]

\* A handler of "state-changed", in a signal emission
Handler(h, cmd) == [h |-> h, cmd |-> cmd]

\* Faulty variant: a second thread is started on _handle_tick_queue
TwoTickThreads == {"Tick thread", "Tick thread 2"}

\* The threads running _handle_tick_queue: __init__ creates and starts one.
TickThreads == {"Tick thread"}

Range(s) == {s[i] : i \in 1..Len(s)}

RemoveAt(s, i) == SubSeq(s, 1, i - 1) \o SubSeq(s, i + 1, Len(s))

\* self._connobjs.values(), as a loop goes through it
values(conns) == SelectSeq(UriOrder, LAMBDA u : u \in conns)

----------------------------------------------------------------------------
(* queue.PriorityQueue as the engine uses it *)

\* Faulty variant: the check is off by one
full_above(q) == Len(q) > maxsize

\* Faulty variant: the check is missing
full_never(q) == FALSE

\* PriorityQueue.full(): 0 < maxsize <= qsize
full(q) == Len(q) >= maxsize

\* isprio and PRIO_HIGH or PRIO_LOW
Prio(isprio) == IF isprio THEN PRIO_HIGH ELSE PRIO_LOW

\* Faulty variant: the counter is not advanced
NextTickCounterSame(c) == c

\* self._tick_counter += 1
NextTickCounter(c) == c + 1

\* Faulty variant: the tuples start with the counter
TupleLessBySeq(a, b) == a.seq < b.seq

\* Python's order of the queued tuples (prio, counter, obj, kwargs): by the
\* first element, then the second.  The counter differs between any two
\* tuples, so the comparison never reaches obj.
TupleLess(a, b) ==
    \/ a.prio < b.prio
    \/ a.prio = b.prio /\ a.seq < b.seq

\* The positions PriorityQueue.get() may return: those of the least tuples
MinPositions(q) ==
    {i \in 1..Len(q) : \A j \in 1..Len(q) : ~TupleLess(q[j], q[i])}

\* Faulty variant: the flag is not set
TickThreadSlowNeverSet == FALSE

\* self._tick_thread_slow = True, after the notice was logged
TickThreadSlowAfterNotice == TRUE

----------------------------------------------------------------------------
(* The state after vmmEngine.__init__ *)

\* __init__ leaves the timer scheduled, one _connstates entry per stored URI,
\* the tick thread started and waiting in get(), and the requests of the
\* constructor's own tick() call in the queue.
Init ==
    /\ connobjs \in SUBSET Uris
    /\ connstates = connobjs
    /\ tick_queue = [i \in 1..Len(values(connobjs)) |->
                        [prio |-> Prio(FALSE), seq |-> i,
                         conn |-> values(connobjs)[i], kwargs |-> TickKwargs]]
    /\ tick_counter = Len(values(connobjs))
    /\ tick_thread_slow = FALSE
    /\ slow_logged = 0
    /\ last_add = IF connobjs = {} THEN "none" ELSE "added"
    /\ tick_thread = [t \in TickThreads |-> [pc |-> "get", item |-> NoItem]]
    /\ fg = FgIdle
    /\ idle = <<>>
    /\ err_out = "none"
    /\ timer = 1
    /\ timeouts = {1}
    /\ windows = 0
    /\ n_inc = 0
    /\ n_dec = 0
    /\ visible = {}
    /\ systray = "none"
    /\ err = TRUE
    /\ quit = FALSE
    /\ n_quit = 0
    /\ exit_reqs = 0
    /\ cleanup_calls = <<>>
    /\ connstate = [u \in Uris |-> NoConnState]
    /\ handlers = [u \in Uris |-> IF u \in connobjs THEN ConnSignals ELSE <<>>]
    /\ cleaned = {}
    /\ found = [called |-> FALSE, vms |-> <<>>, clistr |-> "", vm |-> NoVm]
    /\ conn_state = [u \in Uris |-> "disconnected"]
    /\ sc_pending = [u \in Uris |-> 0]
    /\ n_sc = 0
    /\ idle_calls = <<>>
    /\ emit_todo = <<>>
    /\ cli_cbs = {}
    /\ n_cmds = 0
    /\ cli = [c \in 1..MaxCliCommands |-> NoCli]
    /\ autostart = [pc |-> "none", uri |-> ""]
    /\ connections_queue = <<>>
    /\ auto_conns = <<>>
    /\ auto_cbs = {}
    /\ auto_opens = <<>>
    /\ auto_seen = {}
    /\ stats_update_interval = DefaultInterval
    /\ source_interval = [src \in SourceIds |->
                              IF src = 1 THEN DefaultInterval * 1000 ELSE 0]
    /\ interval_changed = 0
    /\ n_sched = 0

----------------------------------------------------------------------------
(* Foreground: filling the tick queue *)

\* The value tick() returns to GLib: a true value keeps the timeout source.
TickReturn == 1

\* Faulty variant: tick() asks for priority polls
tick_isprio_true == TRUE

\* The isprio argument tick() passes to _add_obj_to_tick_queue
tick_isprio == FALSE

\* What the foreground does when a call of _add_obj_to_tick_queue returns:
\* tick() goes on with the next connection, or returns; the signal handler
\* _schedule_priority_tick returns.
AfterAdd(f) ==
    IF f.caller = "tick" /\ f.idx < Len(values(connobjs))
    THEN [f EXCEPT !.pc = "full", !.idx = f.idx + 1,
                   !.obj = values(connobjs)[f.idx + 1], !.item = NoItem]
    ELSE FgIdle

\* GLib drops a timeout source whose callback returned a false value.
AfterTick(f, srcs) ==
    IF f.caller = "tick" /\ f.idx >= Len(values(connobjs)) /\ TickReturn = 0
    THEN srcs \ {timer}
    ELSE srcs

\* tick(), called by the timeout source: one _add_obj_to_tick_queue call per
\* connection of the connection manager.
tick ==
    /\ ~quit
    /\ fg.pc = "idle"
    /\ timer \in timeouts
    /\ fg' = IF connobjs = {} THEN FgIdle
             ELSE [pc |-> "full", caller |-> "tick", idx |-> 1,
                   obj |-> values(connobjs)[1], isprio |-> tick_isprio,
                   kwargs |-> TickKwargs, item |-> NoItem]
    /\ timeouts' = IF connobjs = {} /\ TickReturn = 0
                   THEN timeouts \ {timer} ELSE timeouts
    /\ UNCHANGED <<connobjs, connstates, tick_queue, tick_counter,
                   tick_thread_slow, slow_logged, last_add, tick_thread,
                   idle, err_out, timer>>
    /\ UNCHANGED window_vars
    /\ UNCHANGED reg_vars
    /\ UNCHANGED ext_vars

\* The stats-update-interval setting changes: the configuration notifies
\* the handler given to on_stats_update_interval_changed, on the foreground
\* thread
StatsUpdateIntervalChanges(v) ==
    /\ ~quit
    /\ v # stats_update_interval
    /\ n_sched + interval_changed < MaxReschedules
    /\ stats_update_interval' = v
    /\ interval_changed' = interval_changed + 1
    /\ UNCHANGED <<queue_vars, idle, err_out, window_vars, reg_vars, find_vars,
                   conn_vars, cli_vars, auto_vars, source_interval, n_sched>>

\* Faulty variant: the source of self.timer stays installed
schedule_timer_sources_kept(srcs, old, new) == srcs \cup {new}

\* The timeout sources schedule_timer() leaves: the source of self.timer is
\* removed when self.timer is set, and the one timeout_add returns is added
schedule_timer_sources(srcs, old, new) ==
    (IF old # 0 THEN srcs \ {old} ELSE srcs) \cup {new}

\* reschedule_timer(*args, **kwargs), the handler of the interval's change:
\* schedule_timer() reads the interval, removes the source of self.timer
\* and installs a new one for tick with interval * 1000
reschedule_timer ==
    /\ ~quit
    /\ fg.pc = "idle"
    /\ interval_changed > 0
    /\ LET interval == stats_update_interval * 1000
           new == n_sched + 2
       IN /\ timeouts' = schedule_timer_sources(timeouts, timer, new)
          /\ timer' = new
          /\ source_interval' = [source_interval EXCEPT ![new] = interval]
    /\ interval_changed' = interval_changed - 1
    /\ n_sched' = n_sched + 1
    /\ UNCHANGED <<connobjs, connstates, tick_queue, tick_counter,
                   tick_thread_slow, slow_logged, last_add, tick_thread, fg,
                   idle, err_out, stats_update_interval>>
    /\ UNCHANGED <<window_vars, reg_vars, find_vars, conn_vars, cli_vars,
                   auto_vars>>

\* _schedule_priority_tick(conn, kwargs), the handler of "priority-tick"
_schedule_priority_tick(conn, kwargs) ==
    /\ ~quit
    /\ fg.pc = "idle"
    /\ fg' = [pc |-> "full", caller |-> "prio", idx |-> 0, obj |-> conn,
              isprio |-> TRUE, kwargs |-> kwargs, item |-> NoItem]
    /\ UNCHANGED <<connobjs, connstates, tick_queue, tick_counter,
                   tick_thread_slow, slow_logged, last_add, tick_thread,
                   idle, err_out, timer, timeouts>>
    /\ UNCHANGED window_vars
    /\ UNCHANGED reg_vars
    /\ UNCHANGED ext_vars

\* A registered connection emits "priority-tick"; the signal is delivered on
\* the foreground thread, like every other handler of the engine.
EmitPriorityTick ==
    \E conn \in connobjs, kwargs \in PrioKwargs :
        _schedule_priority_tick(conn, kwargs)

\* Faulty variant: a request with isprio set is queued at a full queue too
_add_obj_to_tick_queue_returns_for_low(q, isprio) == full(q) /\ ~isprio

\* Whether _add_obj_to_tick_queue(obj, isprio, **kwargs) returns before the
\* put(): when the queue is full(), whatever isprio is
_add_obj_to_tick_queue_returns(q, isprio) == full(q)

\* _add_obj_to_tick_queue up to the put(): the full() check, the notice and
\* the early return, or the new counter value and the tuple to queue.
_add_obj_to_tick_queue_full ==
    /\ ~quit
    /\ fg.pc = "full"
    /\ IF _add_obj_to_tick_queue_returns(tick_queue, fg.isprio)
       THEN /\ IF ~tick_thread_slow
               THEN /\ slow_logged' = slow_logged + 1
                    /\ tick_thread_slow' = TickThreadSlowAfterNotice
                    /\ last_add' = "full_logged"
               ELSE /\ UNCHANGED <<slow_logged, tick_thread_slow>>
                    /\ last_add' = "full_silent"
            /\ fg' = AfterAdd(fg)
            /\ timeouts' = AfterTick(fg, timeouts)
            /\ UNCHANGED tick_counter
       ELSE /\ tick_counter < MaxTickCounter
            /\ tick_counter' = NextTickCounter(tick_counter)
            /\ fg' = [fg EXCEPT !.pc = "put",
                         !.item = [prio |-> Prio(fg.isprio),
                                   seq |-> tick_counter',
                                   conn |-> fg.obj, kwargs |-> fg.kwargs]]
            /\ UNCHANGED <<slow_logged, tick_thread_slow, last_add, timeouts>>
    /\ UNCHANGED <<connobjs, connstates, tick_queue, tick_thread, idle,
                   err_out, timer>>
    /\ UNCHANGED window_vars
    /\ UNCHANGED reg_vars
    /\ UNCHANGED ext_vars

\* The put() of _add_obj_to_tick_queue.  put() blocks while the queue holds
\* maxsize items: the step is taken only once there is room.
_add_obj_to_tick_queue_put ==
    /\ ~quit
    /\ fg.pc = "put"
    /\ Len(tick_queue) < maxsize
    /\ tick_queue' = Append(tick_queue, fg.item)
    /\ last_add' = "added"
    /\ fg' = AfterAdd(fg)
    /\ timeouts' = AfterTick(fg, timeouts)
    /\ UNCHANGED <<connobjs, connstates, tick_counter, tick_thread_slow,
                   slow_logged, tick_thread, idle, err_out, timer>>
    /\ UNCHANGED window_vars
    /\ UNCHANGED reg_vars
    /\ UNCHANGED ext_vars

----------------------------------------------------------------------------
(* The tick thread: _handle_tick_queue *)

\* self._tick_queue.get(): waits for an item, takes the least tuple
_handle_tick_queue_get(t) ==
    /\ ~quit
    /\ tick_thread[t].pc = "get"
    /\ \E i \in MinPositions(tick_queue) :
           /\ tick_thread' = [tick_thread EXCEPT
                                 ![t] = [pc |-> "poll", item |-> tick_queue[i]]]
           /\ tick_queue' = RemoveAt(tick_queue, i)
    /\ UNCHANGED <<connobjs, connstates, tick_counter, tick_thread_slow,
                   slow_logged, last_add, fg, idle, err_out, timer, timeouts>>
    /\ UNCHANGED window_vars
    /\ UNCHANGED reg_vars
    /\ UNCHANGED ext_vars

\* conn.tick_from_engine(**kwargs) returns; conn = None; task_done()
_handle_tick_queue_polled(t) ==
    /\ ~quit
    /\ tick_thread[t].pc = "poll"
    /\ tick_thread' = [tick_thread EXCEPT ![t] = [pc |-> "get", item |-> NoItem]]
    /\ UNCHANGED <<connobjs, connstates, tick_queue, tick_counter,
                   tick_thread_slow, slow_logged, last_add, fg, idle, err_out,
                   timer, timeouts>>
    /\ UNCHANGED window_vars
    /\ UNCHANGED reg_vars
    /\ UNCHANGED ext_vars

\* conn.tick_from_engine(**kwargs) raises and the except clause completes:
\* the message is built, _handle_tick_error is posted with idle_add, then
\* conn = None; task_done()
_handle_tick_queue_relay(t) ==
    /\ ~quit
    /\ tick_thread[t].pc = "poll"
    /\ idle' = Append(idle, "_handle_tick_error")
    /\ tick_thread' = [tick_thread EXCEPT ![t] = [pc |-> "get", item |-> NoItem]]
    /\ UNCHANGED <<connobjs, connstates, tick_queue, tick_counter,
                   tick_thread_slow, slow_logged, last_add, fg, err_out,
                   timer, timeouts>>
    /\ UNCHANGED window_vars
    /\ UNCHANGED reg_vars
    /\ UNCHANGED ext_vars

\* conn.tick_from_engine(**kwargs) raises and a call inside the except
\* clause raises too (conn.get_uri(), the formatting of the message):
\* nothing encloses the clause, the exception leaves the while loop and the
\* thread ends.
_handle_tick_queue_except_raised(t) ==
    /\ ~quit
    /\ tick_thread[t].pc = "poll"
    /\ tick_thread' = [tick_thread EXCEPT ![t] = [pc |-> "dead", item |-> NoItem]]
    /\ UNCHANGED <<connobjs, connstates, tick_queue, tick_counter,
                   tick_thread_slow, slow_logged, last_add, fg, idle, err_out,
                   timer, timeouts>>
    /\ UNCHANGED window_vars
    /\ UNCHANGED reg_vars
    /\ UNCHANGED ext_vars

----------------------------------------------------------------------------
(* Foreground: the posted error, the registry *)

\* Faulty variant: the dialog is shown unless the counter is negative
_handle_tick_error_shows_at_zero(w) == IF w < 0 THEN "log" ELSE "dialog"

\* Where _handle_tick_error puts the message when self.windows is w:
\* logging.debug and return when w <= 0, else self.err.show_err
_handle_tick_error_output(w) == IF w <= 0 THEN "log" ELSE "dialog"

\* _handle_tick_error(msg, details), run from the idle queue
_handle_tick_error ==
    /\ ~quit
    /\ fg.pc = "idle"
    /\ idle # <<>>
    /\ Head(idle) = "_handle_tick_error"
    /\ idle' = Tail(idle)
    /\ err_out' = _handle_tick_error_output(windows)
    /\ UNCHANGED queue_vars
    /\ UNCHANGED window_vars
    /\ UNCHANGED reg_vars
    /\ UNCHANGED ext_vars

\* The registry as _add_conn reads and writes it
Registry ==
    [conns |-> connobjs, keys |-> connstates, state |-> connstate,
     wired |-> handlers]

\* Faulty variant: the URI is registered again whether it is known or not
_add_conn_anew(uri, probe) ==
    [conns |-> connobjs \cup {uri},
     keys |-> connstates \cup {uri},
     state |-> [connstate EXCEPT ![uri] = _ConnState(probe)],
     wired |-> [handlers EXCEPT ![uri] = @ \o ConnSignals]]

\* What _add_conn(uri, probe) leaves: the registry as it is when the URI is
\* a key of _connstates; else a new _ConnState, the connection object of
\* the manager with the five callbacks connected, and the new entry
_add_conn_registry(uri, probe) ==
    IF uri \in connstates
    THEN Registry
    ELSE [conns |-> connobjs \cup {uri},
          keys |-> connstates \cup {uri},
          state |-> [connstate EXCEPT ![uri] = _ConnState(probe)],
          wired |-> [handlers EXCEPT ![uri] = @ \o ConnSignals]]

\* _add_conn(uri, probe)
_add_conn(uri, probe) ==
    /\ ~quit
    /\ fg.pc = "idle"
    /\ connobjs' = _add_conn_registry(uri, probe).conns
    /\ connstates' = _add_conn_registry(uri, probe).keys
    /\ connstate' = _add_conn_registry(uri, probe).state
    /\ handlers' = _add_conn_registry(uri, probe).wired
    /\ UNCHANGED <<tick_queue, tick_counter, tick_thread_slow, slow_logged,
                   last_add, tick_thread, fg, idle, err_out, timer, timeouts,
                   cleaned>>
    /\ UNCHANGED window_vars
    /\ UNCHANGED ext_vars

\* A window of a URI: the host window, the clone window, or the details
\* window of a VM
Win(uri, win, connkey) == [uri |-> uri, win |-> win, connkey |-> connkey]

\* The windows a _ConnState refers to
WindowsOf(uri, cs) ==
    (IF cs.windowHost THEN {Win(uri, "windowHost", "")} ELSE {})
    \cup (IF cs.windowClone THEN {Win(uri, "windowClone", "")} ELSE {})
    \cup {Win(uri, "windowDetails", k) : k \in cs.windowDetails}

\* Faulty variant: the entry is looked up after it was popped
_cleanup_connstate_popped(keys, uri) == {}

\* _cleanup_connstate(uri): the windows it calls cleanup() on.  The lookup
\* self._connstates[uri] raises for a URI that is no key; the except clause
\* logs that, and no window is cleaned up.
_cleanup_connstate(keys, uri) ==
    IF uri \in keys THEN WindowsOf(uri, connstate[uri]) ELSE {}

\* _remove_conn(_src, uri), the handler of the manager's "remove-conn":
\* _cleanup_connstate(uri), then the entry is popped, then the manager
\* drops the connection object.  The manager cleans the object up, its
\* handlers and pending emissions included: a URI that is added again gets
\* a new object, disconnected and with no handler of the old one.
_remove_conn(uri) ==
    /\ ~quit
    /\ fg.pc = "idle"
    /\ uri \in connstates
    /\ cleaned' = cleaned \cup _cleanup_connstate(connstates, uri)
    /\ connstates' = connstates \ {uri}
    /\ connstate' = [connstate EXCEPT ![uri] = NoConnState]
    /\ connobjs' = connobjs \ {uri}
    /\ handlers' = [handlers EXCEPT ![uri] = <<>>]
    /\ conn_state' = [conn_state EXCEPT ![uri] = "disconnected"]
    /\ sc_pending' = [sc_pending EXCEPT ![uri] = 0]
    /\ cli_cbs' = {cb \in cli_cbs : cb.uri # uri}
    /\ auto_cbs' = auto_cbs \ {uri}
    /\ UNCHANGED <<tick_queue, tick_counter, tick_thread_slow, slow_logged,
                   last_add, tick_thread, fg, idle, err_out, timer, timeouts>>
    /\ UNCHANGED <<n_sc, idle_calls, emit_todo, n_cmds, cli, autostart,
                   connections_queue, auto_conns, auto_opens, auto_seen>>
    /\ UNCHANGED window_vars
    /\ UNCHANGED <<find_vars, sched_vars>>

\* _get_host_dialog(uri): the host window of the URI, created when the
\* _ConnState has none
_get_host_dialog(uri) ==
    /\ ~quit
    /\ fg.pc = "idle"
    /\ uri \in connstates
    /\ connstate' = [connstate EXCEPT ![uri].windowHost = TRUE]
    /\ cleaned' = IF connstate[uri].windowHost THEN cleaned
                  ELSE cleaned \ {Win(uri, "windowHost", "")}
    /\ UNCHANGED <<handlers, idle, err_out>>
    /\ UNCHANGED queue_vars
    /\ UNCHANGED window_vars
    /\ UNCHANGED ext_vars

\* _get_details_dialog(uri, connkey): the details window of the VM, created
\* when the details map of the URI has none
_get_details_dialog(uri, connkey) ==
    /\ ~quit
    /\ fg.pc = "idle"
    /\ uri \in connstates
    /\ connstate' = [connstate EXCEPT ![uri].windowDetails = @ \cup {connkey}]
    /\ cleaned' = IF connkey \in connstate[uri].windowDetails THEN cleaned
                  ELSE cleaned \ {Win(uri, "windowDetails", connkey)}
    /\ UNCHANGED <<handlers, idle, err_out>>
    /\ UNCHANGED queue_vars
    /\ UNCHANGED window_vars
    /\ UNCHANGED ext_vars

\* _do_show_clone(src, uri, connkey): the clone window of the URI, created
\* when the _ConnState has none
_do_show_clone(uri) ==
    /\ ~quit
    /\ fg.pc = "idle"
    /\ uri \in connstates
    /\ connstate' = [connstate EXCEPT ![uri].windowClone = TRUE]
    /\ cleaned' = IF connstate[uri].windowClone THEN cleaned
                  ELSE cleaned \ {Win(uri, "windowClone", "")}
    /\ UNCHANGED <<handlers, idle, err_out>>
    /\ UNCHANGED queue_vars
    /\ UNCHANGED window_vars
    /\ UNCHANGED ext_vars

----------------------------------------------------------------------------
(* Foreground: the window counter and the exit *)

\* self.windows += 1
increment_window_counter ==
    /\ windows' = windows + 1
    /\ n_inc' = n_inc + 1

\* Faulty variant: the counter is decremented twice
decrement_window_counter_twice ==
    /\ windows' = windows - 2
    /\ n_dec' = n_dec + 1
    /\ idle' = Append(idle, "_exit_app_if_no_windows")

\* self.windows -= 1; self._exit_app_if_no_windows(src), which posts cb
decrement_window_counter ==
    /\ windows' = windows - 1
    /\ n_dec' = n_dec + 1
    /\ idle' = Append(idle, "_exit_app_if_no_windows")

\* Faulty variant: the check does not read the window counter
_can_exit_whatever_windows == systray # "none" /\ systray # "visible"

\* _can_exit()
_can_exit == windows <= 0 /\ systray # "none" /\ systray # "visible"

\* Faulty variant: the endpoints are torn down before the systray is released
CleanupCallsEndpointsFirst ==
    <<"err = None">>
    \o (IF timer # 0 THEN <<"source_remove(timer)">> ELSE <<>>)
    \o [i \in 1..Cardinality(connstates) |-> "_cleanup_connstate"]
    \o <<"_connstates = {}", "vmmConnectionManager.cleanup">>
    \o (IF systray # "none" THEN <<"systray.cleanup">> ELSE <<>>)
    \o <<"windowManager.cleanup">>

\* _cleanup(), statement by statement: what it calls or assigns, in order.
\* The timer source is removed when self.timer is set, the systray is
\* released when there is one, the manager window is cleaned up (get_manager
\* creates it when needed), then _cleanup_connstate runs for each key of
\* _connstates, _connstates is emptied and the connection manager cleaned up.
CleanupCalls ==
    <<"err = None">>
    \o (IF timer # 0 THEN <<"source_remove(timer)">> ELSE <<>>)
    \o (IF systray # "none" THEN <<"systray.cleanup">> ELSE <<>>)
    \o <<"windowManager.cleanup">>
    \o [i \in 1..Cardinality(connstates) |-> "_cleanup_connstate"]
    \o <<"_connstates = {}", "vmmConnectionManager.cleanup">>

\* Faulty variant: cleanup runs although it ran before
exit_app_again ==
    /\ err' = FALSE
    /\ timeouts' = IF timer # 0 THEN timeouts \ {timer} ELSE timeouts
    /\ systray' = "none"
    /\ connstates' = {}
    /\ connobjs' = {}
    /\ visible' = {}
    /\ cleaned' = cleaned \cup
                      UNION {_cleanup_connstate(connstates, u) : u \in connstates}
    /\ connstate' = [u \in Uris |-> NoConnState]
    /\ handlers' = [u \in Uris |-> <<>>]
    /\ cleanup_calls' = CleanupCalls \o <<"application.quit">>
    /\ quit' = TRUE
    /\ n_quit' = n_quit + 1

\* exit_app(src): returns at once when cleanup already ran; else cleanup()
\* (err dropped, timer source removed, systray released, windows destroyed,
\* _connstates and the connection manager emptied), then application.quit()
exit_app ==
    IF ~err
    THEN UNCHANGED <<err, timeouts, systray, connstates, connobjs, visible,
                     cleanup_calls, quit, n_quit, connstate, handlers, cleaned>>
    ELSE /\ err' = FALSE
         /\ timeouts' = IF timer # 0 THEN timeouts \ {timer} ELSE timeouts
         /\ systray' = "none"
         /\ connstates' = {}
         /\ connobjs' = {}
         /\ visible' = {}
         /\ cleaned' = cleaned \cup
                           UNION {_cleanup_connstate(connstates, u) : u \in connstates}
         /\ connstate' = [u \in Uris |-> NoConnState]
         /\ handlers' = [u \in Uris |-> <<>>]
         /\ cleanup_calls' = CleanupCalls \o <<"application.quit">>
         /\ quit' = TRUE
         /\ n_quit' = n_quit + 1

\* A window that was not shown is shown: it emits its "...-opened" signal
WindowOpened(w) ==
    /\ ~quit
    /\ fg.pc = "idle"
    /\ w \notin visible
    /\ n_inc < MaxWindowEvents
    /\ visible' = visible \cup {w}
    /\ increment_window_counter
    /\ UNCHANGED <<connobjs, connstates, tick_queue, tick_counter,
                   tick_thread_slow, slow_logged, last_add, tick_thread, fg,
                   idle, err_out, timer, timeouts, n_dec, systray, err, quit,
                   n_quit, exit_reqs, cleanup_calls>>
    /\ UNCHANGED reg_vars
    /\ UNCHANGED ext_vars

\* A window that was shown is closed: it emits its "...-closed" signal
WindowClosed(w) ==
    /\ ~quit
    /\ fg.pc = "idle"
    /\ w \in visible
    /\ visible' = visible \ {w}
    /\ decrement_window_counter
    /\ UNCHANGED <<connobjs, connstates, tick_queue, tick_counter,
                   tick_thread_slow, slow_logged, last_add, tick_thread, fg,
                   err_out, timer, timeouts, n_inc, systray, err, quit,
                   n_quit, exit_reqs, cleanup_calls>>
    /\ UNCHANGED reg_vars
    /\ UNCHANGED ext_vars

\* _init_systray(), from _default_startup: the systray object exists from
\* now on, its icon shown when the configuration enables it
_init_systray ==
    /\ ~quit
    /\ fg.pc = "idle"
    /\ systray = "none"
    /\ systray' \in {"hidden", "visible"}
    /\ UNCHANGED <<connobjs, connstates, tick_queue, tick_counter,
                   tick_thread_slow, slow_logged, last_add, tick_thread, fg,
                   idle, err_out, timer, timeouts, windows, n_inc, n_dec,
                   visible, err, quit, n_quit, exit_reqs, cleanup_calls>>
    /\ UNCHANGED reg_vars
    /\ UNCHANGED ext_vars

\* The view-system-tray setting changes: the icon follows it, and
\* _system_tray_changed shows the manager when no window is counted and the
\* icon went away
_system_tray_changed ==
    /\ ~quit
    /\ fg.pc = "idle"
    /\ systray # "none"
    /\ systray' = IF systray = "visible" THEN "hidden" ELSE "visible"
    /\ IF windows = 0 /\ systray' = "hidden" /\ "manager" \notin visible
       THEN /\ n_inc < MaxWindowEvents
            /\ visible' = visible \cup {"manager"}
            /\ increment_window_counter
       ELSE UNCHANGED <<visible, windows, n_inc>>
    /\ UNCHANGED <<connobjs, connstates, tick_queue, tick_counter,
                   tick_thread_slow, slow_logged, last_add, tick_thread, fg,
                   idle, err_out, timer, timeouts, n_dec, err, quit,
                   n_quit, exit_reqs, cleanup_calls>>
    /\ UNCHANGED reg_vars
    /\ UNCHANGED ext_vars

\* cb of _exit_app_if_no_windows, run from the idle queue.  The callbacks
\* that are ready in the main loop iteration in which application.quit() is
\* called are still dispatched.
_exit_app_if_no_windows_cb ==
    /\ fg.pc = "idle"
    /\ idle # <<>>
    /\ Head(idle) = "_exit_app_if_no_windows"
    /\ idle' = Tail(idle)
    /\ IF _can_exit
       THEN exit_app
       ELSE UNCHANGED <<err, timeouts, systray, connstates, connobjs, visible,
                        cleanup_calls, quit, n_quit, connstate, handlers,
                        cleaned>>
    /\ UNCHANGED <<tick_queue, tick_counter, tick_thread_slow, slow_logged,
                   last_add, tick_thread, fg, err_out, timer, windows, n_inc,
                   n_dec, exit_reqs>>
    /\ UNCHANGED ext_vars

\* The user asks a shown window or the systray icon to quit: the object
\* emits "action-exit-app"
RequestExit ==
    /\ ~quit
    /\ visible # {} \/ systray = "visible"
    /\ exit_reqs < MaxExitRequests
    /\ exit_reqs' = exit_reqs + 1
    /\ UNCHANGED <<connobjs, connstates, tick_queue, tick_counter,
                   tick_thread_slow, slow_logged, last_add, tick_thread, fg,
                   idle, err_out, timer, timeouts, windows, n_inc, n_dec,
                   visible, systray, err, quit, n_quit, cleanup_calls>>
    /\ UNCHANGED reg_vars
    /\ UNCHANGED ext_vars

\* exit_app as the handler of a window's or the systray's "action-exit-app"
ActionExitApp ==
    /\ fg.pc = "idle"
    /\ exit_reqs > 0
    /\ exit_reqs' = exit_reqs - 1
    /\ exit_app
    /\ UNCHANGED <<tick_queue, tick_counter, tick_thread_slow, slow_logged,
                   last_add, tick_thread, fg, idle, err_out, timer, windows,
                   n_inc, n_dec>>
    /\ UNCHANGED ext_vars

----------------------------------------------------------------------------
(* Foreground: the windows of a CLI command *)

\* The key _find_vm_by_cli_str compares with: int(clistr) for a str of
\* digits, else clistr
CliKey(clistr) == IF isdigit(clistr) THEN PyInt(int(clistr)) ELSE PyStr(clistr)

\* The test _find_vm_by_cli_str makes for one VM of the list
CliKeyMatches(key, vm) ==
    \/ key = PyInt(vm.id)
    \/ key = PyStr(vm.name)
    \/ key = PyStr(vm.uuid)

\* _find_vm_by_cli_str(uri, clistr): the first VM of conn.list_vms() whose
\* id, name or UUID equals the key; None when the loop ends
_find_vm_by_cli_str(vms, clistr) ==
    LET hits == {i \in 1..Len(vms) : CliKeyMatches(CliKey(clistr), vms[i])}
    IN IF hits = {} THEN NoVm
       ELSE vms[CHOOSE i \in hits : \A j \in hits : i <= j]

\* A lookup of a VM for a CLI command, as _cli_show_vm_helper makes it
FindVm ==
    \E vms \in VmLists, clistr \in CliStrs :
        /\ found' = [called |-> TRUE, vms |-> vms, clistr |-> clistr,
                     vm |-> _find_vm_by_cli_str(vms, clistr)]
        /\ UNCHANGED <<queue_vars, idle, err_out, window_vars, reg_vars,
                       sched_vars, conn_vars, cli_vars, auto_vars>>

\* Faulty variant: no check is posted
PostExitCheckNot(q) == q

\* _exit_app_if_no_windows(): cb is posted with idle_add
PostExitCheck(q) == Append(q, "_exit_app_if_no_windows")

\* window.show() of a top-level window: the window emits its "...-opened"
\* signal when it was not shown
ShowWindow(w) ==
    IF w \in visible
    THEN UNCHANGED <<visible, windows, n_inc>>
    ELSE /\ n_inc < MaxWindowEvents
         /\ visible' = visible \cup {w}
         /\ increment_window_counter

\* The try block of _launch_cli_window raises: the window kind is unknown
LaunchRaises(show_window) ==
    show_window \notin {CLI_SHOW_MANAGER, CLI_SHOW_DOMAIN_CONSOLE}

\* The try block of _launch_cli_window(uri, show_window, clistr): the
\* manager is shown; or the details window of the VM is created when the
\* details map has none, and shown, or an error dialog tells that the
\* connection has no such VM; or RuntimeError is raised
_launch_cli_window(uri, show_window, clistr) ==
    LET vm == _find_vm_by_cli_str(CliVms, clistr)
    IN CASE show_window = CLI_SHOW_MANAGER ->
                /\ ShowWindow("manager")
                /\ UNCHANGED <<connstate, cleaned>>
         [] show_window = CLI_SHOW_DOMAIN_CONSOLE /\ vm # NoVm
                                                 /\ uri \in connstates ->
                /\ ShowWindow("details")
                /\ connstate' = [connstate EXCEPT
                                    ![uri].windowDetails = @ \cup {vm.connkey}]
                /\ cleaned' = IF vm.connkey \in connstate[uri].windowDetails
                              THEN cleaned
                              ELSE cleaned \ {Win(uri, "windowDetails", vm.connkey)}
         [] OTHER ->
                UNCHANGED <<visible, windows, n_inc, connstate, cleaned>>

\* _handle_cli_command(actionobj, variant).  With raises, a call inside
\* _do_handle_cli_command raises before it changed anything, and the except
\* clause posts the exit check.  Else: without a URI the manager is shown;
\* with one, _add_conn, connect_to_uri posted when the connection is
\* disconnected, and for a window kind _launch_cli_window posted when the
\* connection is active, else _cli_conn_connected_cb connected to
\* "state-changed"; without a window kind the manager is shown.
_handle_cli_command(uri, show_window, domain, raises) ==
    LET c == n_cmds + 1
        reg == _add_conn_registry(uri, FALSE)
        disconnected == conn_state[uri] = "disconnected"
        active == conn_state[uri] = "active"
        base == [NoCli EXCEPT !.uri = uri, !.show_window = show_window]
    IN /\ ~quit
       /\ fg.pc = "idle"
       /\ n_cmds < MaxCliCommands
       /\ n_cmds' = c
       /\ IF raises
          THEN /\ idle' = PostExitCheck(idle)
               /\ cli' = [cli EXCEPT ![c] = [base EXCEPT !.errors = 1,
                                                 !.checks = 1, !.done = TRUE]]
               /\ UNCHANGED <<connobjs, connstates, connstate, handlers,
                              idle_calls, cli_cbs, visible, windows, n_inc>>
          ELSE IF uri = ""
          THEN /\ ShowWindow("manager")
               /\ cli' = [cli EXCEPT ![c] = [base EXCEPT !.done = TRUE]]
               /\ UNCHANGED <<connobjs, connstates, connstate, handlers,
                              idle_calls, cli_cbs, idle>>
          ELSE /\ connobjs' = reg.conns
               /\ connstates' = reg.keys
               /\ connstate' = reg.state
               /\ handlers' = reg.wired
               /\ idle_calls' =
                     (IF disconnected
                      THEN Append(idle_calls, IdleCall("connect_to_uri", uri, "", "", c))
                      ELSE idle_calls)
                     \o (IF show_window # "" /\ active
                         THEN <<IdleCall("_launch_cli_window", uri, show_window,
                                         domain, c)>>
                         ELSE <<>>)
               /\ cli_cbs' = IF show_window # "" /\ ~active
                             THEN cli_cbs \cup {IdleCall("_cli_conn_connected_cb",
                                                         uri, show_window, domain, c)}
                             ELSE cli_cbs
               /\ cli' = [cli EXCEPT ![c] =
                            [base EXCEPT !.opens = IF disconnected THEN 1 ELSE 0,
                                         !.deferred = show_window # "" /\ ~active,
                                         !.done = show_window = ""]]
               /\ IF show_window = ""
                  THEN ShowWindow("manager")
                  ELSE UNCHANGED <<visible, windows, n_inc>>
               /\ UNCHANGED idle
       /\ UNCHANGED <<tick_queue, tick_counter, tick_thread_slow, slow_logged,
                      last_add, tick_thread, fg, err_out, timer, timeouts,
                      n_dec, systray, err, quit, n_quit, exit_reqs,
                      cleanup_calls, cleaned, conn_state, sc_pending, n_sc,
                      emit_todo>>
       /\ UNCHANGED <<find_vars, sched_vars, auto_vars>>

\* conn.open() of a disconnected connection: it is connecting from now on
\* and emits "state-changed"; open() of another connection changes nothing
ConnOpen(uri) ==
    IF conn_state[uri] = "disconnected"
    THEN /\ conn_state' = [conn_state EXCEPT ![uri] = "connecting"]
         /\ sc_pending' = [sc_pending EXCEPT ![uri] = @ + 1]
    ELSE UNCHANGED <<conn_state, sc_pending>>

\* connect_to_uri(uri), run from the idle queue: _add_conn, then conn.open()
connect_to_uri ==
    /\ ~quit
    /\ fg.pc = "idle"
    /\ idle_calls # <<>>
    /\ Head(idle_calls).fn = "connect_to_uri"
    /\ LET uri == Head(idle_calls).uri
           reg == _add_conn_registry(uri, FALSE)
       IN /\ connobjs' = reg.conns
          /\ connstates' = reg.keys
          /\ connstate' = reg.state
          /\ handlers' = reg.wired
          /\ ConnOpen(uri)
    /\ idle_calls' = Tail(idle_calls)
    /\ UNCHANGED <<tick_queue, tick_counter, tick_thread_slow, slow_logged,
                   last_add, tick_thread, fg, idle, err_out, timer, timeouts,
                   cleaned, n_sc, emit_todo>>
    /\ UNCHANGED <<window_vars, find_vars, sched_vars, cli_vars, auto_vars>>

\* completed(_src, uri, autoconnect), the handler of the connect dialog's
\* "completed": connect_to_uri(uri, autoconnect, probe=True)
completed(uri) ==
    /\ ~quit
    /\ fg.pc = "idle"
    /\ LET reg == _add_conn_registry(uri, TRUE)
       IN /\ connobjs' = reg.conns
          /\ connstates' = reg.keys
          /\ connstate' = reg.state
          /\ handlers' = reg.wired
          /\ ConnOpen(uri)
    /\ UNCHANGED <<tick_queue, tick_counter, tick_thread_slow, slow_logged,
                   last_add, tick_thread, fg, idle, err_out, timer, timeouts,
                   cleaned, n_sc, idle_calls, emit_todo>>
    /\ UNCHANGED <<window_vars, find_vars, sched_vars, cli_vars, auto_vars>>

\* _launch_cli_window(uri, show_window, clistr), run from the idle queue:
\* the try block, and the finally clause that posts the exit check
_launch_cli_window_idle ==
    /\ ~quit
    /\ fg.pc = "idle"
    /\ idle_calls # <<>>
    /\ Head(idle_calls).fn = "_launch_cli_window"
    /\ LET call == Head(idle_calls)
       IN /\ _launch_cli_window(call.uri, call.show_window, call.domain)
          /\ cli' = [cli EXCEPT ![call.cmd].launched = @ + 1,
                                ![call.cmd].checks = @ + 1,
                                ![call.cmd].done = TRUE]
    /\ idle' = PostExitCheck(idle)
    /\ idle_calls' = Tail(idle_calls)
    /\ UNCHANGED <<connobjs, connstates, handlers, tick_queue, tick_counter,
                   tick_thread_slow, slow_logged, last_add, tick_thread, fg,
                   err_out, timer, timeouts, n_dec, systray, err, quit,
                   n_quit, exit_reqs, cleanup_calls, conn_state, sc_pending,
                   n_sc, emit_todo, cli_cbs, n_cmds>>
    /\ UNCHANGED <<find_vars, sched_vars, auto_vars>>

\* A connection that is connecting becomes active (to = "active") or ends
\* disconnected, or an active connection is lost; it emits "state-changed"
ConnStateChanges(uri, to) ==
    /\ ~quit
    /\ uri \in connobjs
    /\ n_sc < MaxStateChanges
    /\ \/ conn_state[uri] = "connecting" /\ to \in {"active", "disconnected"}
       \/ conn_state[uri] = "active" /\ to = "disconnected"
    /\ conn_state' = [conn_state EXCEPT ![uri] = to]
    /\ sc_pending' = [sc_pending EXCEPT ![uri] = @ + 1]
    /\ n_sc' = n_sc + 1
    /\ UNCHANGED <<queue_vars, idle, err_out, window_vars, reg_vars, find_vars, sched_vars,
                   idle_calls, emit_todo, cli_vars, auto_vars>>

\* The handlers connected to "state-changed" of a connection, in the order
\* they were connected: _do_conn_changed (by _add_conn), then
\* _cli_conn_connected_cb per deferred CLI command and state_change_cb of
\* the autostart
StateChangedHandlers(uri) ==
    <<Handler("_do_conn_changed", 0)>>
    \o [i \in 1..Cardinality({cb \in cli_cbs : cb.uri = uri /\ cb.cmd = 1}) |->
           Handler("_cli_conn_connected_cb", 1)]
    \o [i \in 1..Cardinality({cb \in cli_cbs : cb.uri = uri /\ cb.cmd = 2}) |->
           Handler("_cli_conn_connected_cb", 2)]
    \o [i \in 1..Cardinality({cb \in cli_cbs : cb.uri = uri /\ cb.cmd = 3}) |->
           Handler("_cli_conn_connected_cb", 3)]
    \o (IF uri \in auto_cbs THEN <<Handler("state_change_cb", 0)>> ELSE <<>>)

\* A "state-changed" emission of a connection reaches the foreground: its
\* handlers are called one after the other
state_changed(uri) ==
    /\ ~quit
    /\ fg.pc = "idle"
    /\ sc_pending[uri] > 0
    /\ uri \in connstates
    /\ sc_pending' = [sc_pending EXCEPT ![uri] = @ - 1]
    /\ emit_todo' = StateChangedHandlers(uri)
    /\ fg' = [FgIdle EXCEPT !.pc = "emit", !.obj = uri]
    /\ UNCHANGED <<connobjs, connstates, tick_queue, tick_counter,
                   tick_thread_slow, slow_logged, last_add, tick_thread, idle,
                   err_out, timer, timeouts, conn_state, n_sc, idle_calls>>
    /\ UNCHANGED <<window_vars, reg_vars, find_vars, sched_vars, cli_vars, auto_vars>>

\* The foreground once a handler of the emission has returned
AfterHandler == IF Len(emit_todo) > 1 THEN fg ELSE FgIdle

\* _do_conn_changed(conn): for a connection that is neither active nor
\* connecting, the details windows of its URI are cleaned up and dropped
_do_conn_changed ==
    /\ fg.pc = "emit"
    /\ Head(emit_todo).h = "_do_conn_changed"
    /\ IF conn_state[fg.obj] \in {"active", "connecting"}
       THEN UNCHANGED <<connstate, cleaned>>
       ELSE /\ cleaned' = cleaned \cup
                  {Win(fg.obj, "windowDetails", k) :
                      k \in connstate[fg.obj].windowDetails}
            /\ connstate' = [connstate EXCEPT ![fg.obj].windowDetails = {}]
    /\ emit_todo' = Tail(emit_todo)
    /\ fg' = AfterHandler
    /\ UNCHANGED <<connobjs, connstates, tick_queue, tick_counter,
                   tick_thread_slow, slow_logged, last_add, tick_thread, idle,
                   err_out, timer, timeouts, handlers, conn_state, sc_pending,
                   n_sc, idle_calls>>
    /\ UNCHANGED <<window_vars, find_vars, sched_vars, cli_vars, auto_vars>>

\* Faulty variant: the callback never asks to be disconnected
CliCbReturnsFalse(state) == FALSE

\* Faulty variant: the callback stays connected after a failure
CliCbReturnsOnActive(state) == state = "active"

\* What _cli_conn_connected_cb returns: True after the launch and from the
\* except clause, False while the connection is connecting.  connect_opt_out
\* disconnects a callback that returned True.
CliCbReturns(state) == state \in {"disconnected", "active"}

\* _cli_conn_connected_cb(conn, uri, show_window, domain): RuntimeError for
\* a disconnected connection, _launch_cli_window for an active one; the
\* except clause logs an exception of either and posts the exit check
_cli_conn_connected_cb ==
    /\ fg.pc = "emit"
    /\ Head(emit_todo).h = "_cli_conn_connected_cb"
    /\ LET c == Head(emit_todo).cmd
           cb == CHOOSE x \in cli_cbs : x.cmd = c
           state == conn_state[cb.uri]
           launches == state = "active"
           raises == state = "disconnected"
                        \/ (launches /\ LaunchRaises(cb.show_window))
           finally == IF launches THEN PostExitCheck(idle) ELSE idle
       IN /\ IF launches
             THEN _launch_cli_window(cb.uri, cb.show_window, cb.domain)
             ELSE UNCHANGED <<visible, windows, n_inc, connstate, cleaned>>
          /\ idle' = IF raises THEN PostExitCheck(finally) ELSE finally
          /\ cli' = [cli EXCEPT
                       ![c].launched = IF launches THEN @ + 1 ELSE @,
                       ![c].errors = IF raises THEN @ + 1 ELSE @,
                       ![c].failed = @ \/ state = "disconnected",
                       ![c].checks = @ + (IF launches THEN 1 ELSE 0)
                                       + (IF raises THEN 1 ELSE 0),
                       ![c].done = @ \/ launches \/ raises]
          /\ cli_cbs' = IF CliCbReturns(state) THEN cli_cbs \ {cb} ELSE cli_cbs
    /\ emit_todo' = Tail(emit_todo)
    /\ fg' = AfterHandler
    /\ UNCHANGED <<connobjs, connstates, handlers, tick_queue, tick_counter,
                   tick_thread_slow, slow_logged, last_add, tick_thread,
                   err_out, timer, timeouts, n_dec, systray, err, quit,
                   n_quit, exit_reqs, cleanup_calls, conn_state, sc_pending,
                   n_sc, idle_calls, n_cmds>>
    /\ UNCHANGED <<find_vars, sched_vars, auto_vars>>

----------------------------------------------------------------------------
(* The autostart of the connections *)

\* The None that ends the autostart thread
None == "None"

\* add_next_to_queue(): it puts None when auto_conns is empty, else
\* auto_conns.pop(0)
add_next_to_queue(q, conns) ==
    [queue |-> Append(q, IF conns = <<>> THEN None ELSE Head(conns)),
     conns |-> IF conns = <<>> THEN conns ELSE Tail(conns)]

\* autostart_conns(), posted by _default_startup: the URIs of the
\* connections with autoconnect set, in the order of _connobjs; the first
\* add_next_to_queue(); the thread is started
autostart_conns ==
    /\ ~quit
    /\ fg.pc = "idle"
    /\ autostart.pc = "none"
    /\ \E autoconnect \in SUBSET connobjs :
           LET next == add_next_to_queue(<<>>, values(autoconnect))
           IN /\ connections_queue' = next.queue
              /\ auto_conns' = next.conns
    /\ autostart' = [pc |-> "get", uri |-> ""]
    /\ UNCHANGED <<queue_vars, idle, err_out, window_vars, reg_vars,
                   find_vars, sched_vars, conn_vars, cli_vars, auto_cbs, auto_opens, auto_seen>>

\* handle_queue: connections_queue.get() returns; None ends the thread
handle_queue_get ==
    /\ ~quit
    /\ autostart.pc = "get"
    /\ connections_queue # <<>>
    /\ connections_queue' = Tail(connections_queue)
    /\ autostart' = IF Head(connections_queue) = None
                    THEN [pc |-> "done", uri |-> ""]
                    ELSE [pc |-> "got", uri |-> Head(connections_queue)]
    /\ UNCHANGED <<queue_vars, idle, err_out, window_vars, reg_vars,
                   find_vars, sched_vars, conn_vars, cli_vars, auto_conns, auto_cbs, auto_opens, auto_seen>>

\* Faulty variant: the thread queues the next URI for every URI it takes
handle_queue_adds_next_always(known) == TRUE

\* Whether handle_queue calls add_next_to_queue() itself for the URI it
\* took: only for a URI that is not in _connobjs; for a known one it is
\* left to state_change_cb
handle_queue_adds_next(known) == ~known

\* handle_queue: the test uri not in self._connobjs; a URI that is not in
\* it is skipped
handle_queue_check ==
    /\ ~quit
    /\ autostart.pc = "got"
    /\ LET known == autostart.uri \in connobjs
           next == add_next_to_queue(connections_queue, auto_conns)
       IN /\ IF handle_queue_adds_next(known)
             THEN /\ connections_queue' = next.queue
                  /\ auto_conns' = next.conns
             ELSE UNCHANGED <<connections_queue, auto_conns>>
          /\ autostart' = IF known THEN [autostart EXCEPT !.pc = "checked"]
                          ELSE [pc |-> "get", uri |-> ""]
    /\ UNCHANGED <<queue_vars, idle, err_out, window_vars, reg_vars,
                   find_vars, sched_vars, conn_vars, cli_vars, auto_cbs,
                   auto_opens, auto_seen>>

\* handle_queue: conn = self._connobjs[uri], which raises KeyError and ends
\* the thread when the URI was removed since the test; then state_change_cb
\* is connected to "state-changed" of the connection
handle_queue_connect ==
    /\ ~quit
    /\ autostart.pc = "checked"
    /\ IF autostart.uri \in connobjs
       THEN /\ auto_cbs' = auto_cbs \cup {autostart.uri}
            /\ autostart' = [autostart EXCEPT !.pc = "connected"]
       ELSE /\ auto_cbs' = auto_cbs
            /\ autostart' = [pc |-> "dead", uri |-> ""]
    /\ UNCHANGED <<queue_vars, idle, err_out, window_vars, reg_vars,
                   find_vars, sched_vars, conn_vars, cli_vars,
                   connections_queue, auto_conns, auto_opens, auto_seen>>

\* handle_queue: self.idle_add(self.connect_to_uri, uri), and back to get()
handle_queue_idle_add ==
    /\ ~quit
    /\ autostart.pc = "connected"
    /\ idle_calls' = Append(idle_calls,
                            IdleCall("connect_to_uri", autostart.uri, "", "", 0))
    /\ auto_opens' = Append(auto_opens, autostart.uri)
    /\ autostart' = [pc |-> "get", uri |-> ""]
    /\ UNCHANGED <<queue_vars, idle, err_out, window_vars, reg_vars,
                   find_vars, sched_vars, cli_vars, conn_state, sc_pending, n_sc, emit_todo, connections_queue,
                   auto_conns, auto_cbs, auto_seen>>

\* state_change_cb(conn), a handler of "state-changed": for an active
\* connection add_next_to_queue(), and the callback is disconnected
state_change_cb ==
    /\ fg.pc = "emit"
    /\ Head(emit_todo).h = "state_change_cb"
    /\ auto_seen' = auto_seen \cup {fg.obj}
    /\ IF conn_state[fg.obj] = "active"
       THEN LET next == add_next_to_queue(connections_queue, auto_conns)
            IN /\ connections_queue' = next.queue
               /\ auto_conns' = next.conns
               /\ auto_cbs' = auto_cbs \ {fg.obj}
       ELSE UNCHANGED <<connections_queue, auto_conns, auto_cbs>>
    /\ emit_todo' = Tail(emit_todo)
    /\ fg' = AfterHandler
    /\ UNCHANGED <<connobjs, connstates, tick_queue, tick_counter,
                   tick_thread_slow, slow_logged, last_add, tick_thread, idle,
                   err_out, timer, timeouts, conn_state, sc_pending, n_sc,
                   idle_calls, autostart, auto_opens>>
    /\ UNCHANGED <<window_vars, reg_vars, find_vars, sched_vars, cli_vars>>

----------------------------------------------------------------------------
(* Specifications *)

\* The model lets a handler that makes n calls of _add_obj_to_tick_queue
\* start only while the counter leaves room for n requests.
HasRoom(n) == tick_counter + n <= MaxTickCounter

\* The polling scheduler: the foreground fills the tick queue and edits the
\* registry, the tick thread drains the queue.
Next ==
    \/ HasRoom(Cardinality(connobjs)) /\ tick
    \/ HasRoom(1) /\ EmitPriorityTick
    \/ _add_obj_to_tick_queue_full
    \/ _add_obj_to_tick_queue_put
    \/ \E t \in TickThreads : _handle_tick_queue_get(t)
    \/ \E t \in TickThreads : _handle_tick_queue_polled(t)
    \/ \E t \in TickThreads : _handle_tick_queue_relay(t)
    \/ \E t \in TickThreads : _handle_tick_queue_except_raised(t)
    \/ _handle_tick_error
    \/ \E uri \in Uris : _add_conn(uri, FALSE)
    \/ \E uri \in Uris : _remove_conn(uri)

Spec == Init /\ [][Next]_vars

\* The tick thread keeps running while it can take a step: a poll in
\* progress ends (it returns or raises), and a waiting get() returns once
\* the queue holds an item.
TickThreadRuns ==
    \A t \in TickThreads :
        /\ WF_vars(_handle_tick_queue_get(t))
        /\ WF_vars(_handle_tick_queue_polled(t) \/ _handle_tick_queue_relay(t)
                      \/ _handle_tick_queue_except_raised(t))

FairSpec == Init /\ [][Next]_vars /\ TickThreadRuns

\* The scheduler under pressure: two URIs, and handlers also start at a
\* full queue whatever the counter is (their calls are then rejected unless
\* the tick thread makes room first), so that the queue fills up, drains
\* and fills up again within the bound of the counter.
PressureUris == {"connA", "connB"}

InitPressure == Init /\ connobjs \subseteq PressureUris

NextPressure ==
    \/ (HasRoom(Cardinality(connobjs)) \/ full(tick_queue)) /\ tick
    \/ (HasRoom(1) \/ full(tick_queue)) /\ EmitPriorityTick
    \/ _add_obj_to_tick_queue_full
    \/ _add_obj_to_tick_queue_put
    \/ \E t \in TickThreads : _handle_tick_queue_get(t)
    \/ \E t \in TickThreads : _handle_tick_queue_polled(t)
    \/ \E t \in TickThreads : _handle_tick_queue_relay(t)
    \/ \E t \in TickThreads : _handle_tick_queue_except_raised(t)
    \/ _handle_tick_error
    \/ \E uri \in PressureUris : _add_conn(uri, FALSE)
    \/ \E uri \in PressureUris : _remove_conn(uri)

SpecPressure == InitPressure /\ [][NextPressure]_vars

\* The window counter and the exit of the application
NextLifecycle ==
    \/ \E w \in Windows : WindowOpened(w)
    \/ \E w \in Windows : WindowClosed(w)
    \/ _init_systray
    \/ _system_tray_changed
    \/ _exit_app_if_no_windows_cb
    \/ RequestExit
    \/ ActionExitApp

SpecLifecycle == Init /\ [][NextLifecycle]_vars

\* Poll errors while windows open and close: one URI, the tick thread
\* polls it and its poll may raise, windows are shown and closed
InitErrors == Init /\ connobjs = {"connA"}

NextErrors ==
    \/ HasRoom(Cardinality(connobjs)) /\ tick
    \/ _add_obj_to_tick_queue_full
    \/ _add_obj_to_tick_queue_put
    \/ \E t \in TickThreads : _handle_tick_queue_get(t)
    \/ \E t \in TickThreads : _handle_tick_queue_polled(t)
    \/ \E t \in TickThreads : _handle_tick_queue_relay(t)
    \/ \E t \in TickThreads : _handle_tick_queue_except_raised(t)
    \/ _handle_tick_error
    \/ \E w \in Windows : WindowOpened(w)
    \/ \E w \in Windows : WindowClosed(w)
    \/ _init_systray
    \/ _exit_app_if_no_windows_cb

SpecErrors == InitErrors /\ [][NextErrors]_vars

\* The main loop runs the callbacks posted with idle_add
IdleRuns == WF_vars(_exit_app_if_no_windows_cb)

FairLifecycle == Init /\ [][NextLifecycle]_vars /\ IdleRuns

\* The registry and the windows of its endpoints, for two URIs
InitRegistry == Init /\ connobjs \subseteq PressureUris

NextRegistry ==
    \/ \E uri \in PressureUris, probe \in BOOLEAN : _add_conn(uri, probe)
    \/ \E uri \in PressureUris : _remove_conn(uri)
    \/ \E uri \in PressureUris : _get_host_dialog(uri)
    \/ \E uri \in PressureUris, connkey \in Connkeys :
           _get_details_dialog(uri, connkey)
    \/ \E uri \in PressureUris : _do_show_clone(uri)

SpecRegistry == InitRegistry /\ [][NextRegistry]_vars

\* The CLI commands: their handler, the calls it posts, the connection of
\* the URI and its "state-changed" signal, the exit check
InitCli == Init /\ connobjs = {}

NextCli ==
    \/ \E cmd \in CliCommands :
           _handle_cli_command(cmd[1], cmd[2], cmd[3], cmd[4])
    \/ connect_to_uri
    \/ completed("connA")
    \/ _launch_cli_window_idle
    \/ \E uri \in Uris, to \in ConnStates : ConnStateChanges(uri, to)
    \/ \E uri \in Uris : state_changed(uri)
    \/ _do_conn_changed
    \/ _cli_conn_connected_cb
    \/ _init_systray
    \/ _exit_app_if_no_windows_cb

SpecCli == InitCli /\ [][NextCli]_vars

\* A signal emission in progress goes on: each handler of it is called
EmissionRuns == WF_vars(_do_conn_changed) /\ WF_vars(_cli_conn_connected_cb)

FairCli == InitCli /\ [][NextCli]_vars /\ IdleRuns /\ EmissionRuns

\* The exit check after the manager window is closed and shown again; as
\* in _default_startup the systray is initialised before a window is shown
NextDeferred ==
    \/ _init_systray
    \/ systray # "none" /\ WindowOpened("manager")
    \/ WindowClosed("manager")
    \/ _exit_app_if_no_windows_cb

SpecDeferred == Init /\ [][NextDeferred]_vars

\* The windows of a connection that connects and drops: the user opens
\* connA and its host, details and clone windows, the connection changes
\* its state and _do_conn_changed handles "state-changed"
NextConnWindows ==
    \/ completed("connA")
    \/ \E to \in ConnStates : ConnStateChanges("connA", to)
    \/ state_changed("connA")
    \/ _do_conn_changed
    \/ _get_host_dialog("connA")
    \/ \E connkey \in Connkeys : _get_details_dialog("connA", connkey)
    \/ _do_show_clone("connA")

SpecConnWindows == InitErrors /\ [][NextConnWindows]_vars

\* The polling timer: the interval changes, the timer is rescheduled, and
\* tick() runs from the source that is installed
NextTimer ==
    \/ \E v \in Intervals : StatsUpdateIntervalChanges(v)
    \/ reschedule_timer
    \/ HasRoom(Cardinality(connobjs)) /\ tick
    \/ _add_obj_to_tick_queue_full
    \/ _add_obj_to_tick_queue_put
    \/ \E t \in TickThreads : _handle_tick_queue_get(t)
    \/ \E t \in TickThreads : _handle_tick_queue_polled(t)

SpecTimer == InitPressure /\ [][NextTimer]_vars

\* The autostart: its thread, the opens it posts, the connections' state
\* changes and their "state-changed" signal, a URI the user opens from the
\* connect dialog, and URIs that are removed
NextAutostart ==
    \/ autostart_conns
    \/ handle_queue_get
    \/ handle_queue_check
    \/ handle_queue_connect
    \/ handle_queue_idle_add
    \/ connect_to_uri
    \/ completed("connA")
    \/ \E uri \in Uris, to \in ConnStates : ConnStateChanges(uri, to)
    \/ \E uri \in Uris : state_changed(uri)
    \/ _do_conn_changed
    \/ state_change_cb
    \/ \E uri \in Uris : _remove_conn(uri)

SpecAutostart == Init /\ [][NextAutostart]_vars

\* The autostart thread runs while it can take a step (a waiting get()
\* returns once the queue holds an item), the main loop runs the posted
\* connect_to_uri, delivers the pending "state-changed" emissions and calls
\* every handler of an emission, and a connection that is connecting becomes
\* active or ends disconnected
AutostartRuns ==
    /\ WF_vars(autostart_conns)
    /\ WF_vars(handle_queue_get)
    /\ WF_vars(handle_queue_check)
    /\ WF_vars(handle_queue_connect)
    /\ WF_vars(handle_queue_idle_add)
    /\ WF_vars(connect_to_uri)
    /\ \A uri \in Uris : WF_vars(state_changed(uri))
    /\ WF_vars(_do_conn_changed)
    /\ WF_vars(state_change_cb)
    /\ \A uri \in Uris :
           WF_vars(conn_state[uri] = "connecting"
                     /\ \E to \in ConnStates : ConnStateChanges(uri, to))

\* The autostart with nothing else going on: no URI is removed, and the
\* user opens none
NextAutostartAlone ==
    \/ autostart_conns
    \/ handle_queue_get
    \/ handle_queue_check
    \/ handle_queue_connect
    \/ handle_queue_idle_add
    \/ connect_to_uri
    \/ \E uri \in Uris, to \in ConnStates : ConnStateChanges(uri, to)
    \/ \E uri \in Uris : state_changed(uri)
    \/ _do_conn_changed
    \/ state_change_cb

FairAutostart == Init /\ [][NextAutostartAlone]_vars /\ AutostartRuns

\* The lookups of VMs by the domain string of a CLI command
InitFindVm == Init /\ connobjs = {}

SpecFindVm == InitFindVm /\ [][FindVm]_vars

----------------------------------------------------------------------------
(* Properties: the tick queue *)

\* The tuples the program holds: queued, or taken by a tick thread
Held == Range(tick_queue) \cup
        {tick_thread[t].item : t \in {u \in TickThreads : tick_thread[u].item # NoItem}}

\* a is polled before b: HIGH before LOW, and within a priority the lower
\* sequence number first
Before(a, b) ==
    \/ a.prio = PRIO_HIGH /\ b.prio = PRIO_LOW
    \/ a.prio = b.prio /\ a.seq < b.seq

\* The step in which tick thread t takes an item from the queue
Dequeues(t) == tick_thread[t].pc = "get" /\ tick_thread'[t].pc = "poll"

\* The foreground takes a step
FgSteps == fg' # fg

\* The connections in the order successive get() calls return their items
RECURSIVE DrainOrder(_)
DrainOrder(q) ==
    IF q = <<>> THEN <<>>
    ELSE LET i == CHOOSE k \in MinPositions(q) : TRUE
         IN <<q[i].conn>> \o DrainOrder(RemoveAt(q, i))

\* The queue holds (LOW, connA), (HIGH, connB), (LOW, connC), put in this order
ScenarioQueued(q) ==
    /\ Len(q) = 3
    /\ q[1].prio = PRIO_LOW /\ q[1].conn = "connA"
    /\ q[2].prio = PRIO_HIGH /\ q[2].conn = "connB"
    /\ q[3].prio = PRIO_LOW /\ q[3].conn = "connC"

\* C1: every get() of the tick thread returns a queued item that no queued
\* item precedes in (priority, sequence) order, HIGH before LOW; and a queue
\* filled with (LOW, connA), (HIGH, connB), (LOW, connC) in this order is
\* drained in the order connB, connA, connC.
C1_DequeueLeast ==
    /\ [](ScenarioQueued(tick_queue)
            => DrainOrder(tick_queue) = <<"connB", "connA", "connC">>)
    /\ [][\A t \in TickThreads :
            Dequeues(t) =>
                /\ tick_thread'[t].item \in Range(tick_queue)
                /\ \A it \in Range(tick_queue) : ~Before(it, tick_thread'[t].item)
                /\ ScenarioQueued(tick_queue) => tick_thread'[t].item.conn = "connB"]_vars

\* C1 witness: the three requests of the scenario were queued and the tick
\* thread has taken connB's, leaving connA's before connC's.
C1_Witness ==
    \E t \in TickThreads :
        /\ tick_thread[t].pc = "poll"
        /\ tick_thread[t].item.conn = "connB"
        /\ tick_thread[t].item.prio = PRIO_HIGH
        /\ Len(tick_queue) = 2
        /\ tick_queue[1].conn = "connA" /\ tick_queue[1].prio = PRIO_LOW
        /\ tick_queue[2].conn = "connC" /\ tick_queue[2].prio = PRIO_LOW
        /\ tick_queue[1].seq < tick_thread[t].item.seq
        /\ tick_thread[t].item.seq < tick_queue[2].seq

\* C2: of two queued items of the same priority the one put first is taken
\* first, and each accepted item gets a sequence number above that of every
\* item accepted before it (no sequence number in use exceeds the counter,
\* and an accepted item gets a counter value above the old one).
C2_FifoWithinPriority ==
    /\ [](\A it \in Held \cup {fg.item} : it.seq <= tick_counter)
    /\ [][/\ \A t \in TickThreads :
                Dequeues(t) =>
                    \E i \in 1..Len(tick_queue) :
                        /\ tick_thread'[t].item = tick_queue[i]
                        /\ tick_queue' = RemoveAt(tick_queue, i)
                        /\ \A j \in 1..(i - 1) : tick_queue[j].prio # tick_queue[i].prio
          /\ (fg.pc = "full" /\ fg'.pc = "put") =>
                /\ fg'.item.seq = tick_counter'
                /\ tick_counter' > tick_counter
                /\ \A it \in Held : it.seq < fg'.item.seq]_vars

\* C2 witness: two LOW items and two HIGH items were accepted, and the tick
\* thread polls the older of a pair while the younger one is still queued.
C2_Witness ==
    \E t \in TickThreads :
        /\ tick_thread[t].pc = "poll"
        /\ \E i \in 1..Len(tick_queue) :
               /\ tick_queue[i].prio = tick_thread[t].item.prio
               /\ tick_queue[i].seq > tick_thread[t].item.seq
        /\ fg.pc = "put"

\* C3: the queue never holds more than maxsize items, and a call of
\* _add_obj_to_tick_queue that finds the queue at capacity returns without
\* putting: the queue and the counter stay as they are.
C3_BoundedRejecting ==
    /\ [](Len(tick_queue) <= maxsize)
    /\ [][(fg.pc = "full" /\ Len(tick_queue) >= maxsize /\ FgSteps) =>
            /\ tick_queue' = tick_queue
            /\ tick_counter' = tick_counter
            /\ fg'.pc # "put"
            /\ last_add' \in {"full_logged", "full_silent"}]_vars

\* C3 witness: a call was rejected at a queue holding maxsize items.
C3_Witness ==
    /\ last_add \in {"full_logged", "full_silent"}
    /\ Len(tick_queue) = maxsize

\* C4: a put() of the foreground never finds the queue at capacity, so it
\* never waits, whatever the tick thread did between full() and put().
C4_PutNeverWaits == ~(fg.pc = "put" /\ Len(tick_queue) >= maxsize)

\* C4 witness: the foreground is between full() and put(), the tick thread
\* is polling, and the put() will fill the queue up to its capacity.
C4_Witness ==
    /\ fg.pc = "put"
    /\ Len(tick_queue) = maxsize - 1
    /\ \E t \in TickThreads : tick_thread[t].pc = "poll"

\* A call of _add_obj_to_tick_queue is rejected in this step
Rejects == fg.pc = "full" /\ Len(tick_queue) >= maxsize /\ FgSteps

\* C5 as claimed: the first rejection of every full-queue episode (a
\* rejection whose preceding call was accepted) logs the notice.
C5_NoticeEachEpisode ==
    [][(Rejects /\ last_add = "added") => slow_logged' = slow_logged + 1]_vars

\* C5 amended: the notice is logged once in the life of the process, by the
\* first rejected call; the flag that suppresses it is never cleared, so no
\* later rejection logs it, also after the queue was below capacity.
C5_NoticeOnce ==
    /\ [](slow_logged = IF tick_thread_slow THEN 1 ELSE 0)
    /\ [][/\ tick_thread_slow => tick_thread_slow'
          /\ Rejects => (tick_thread_slow' /\ slow_logged' = 1)
          /\ slow_logged' # slow_logged => (Rejects /\ ~tick_thread_slow)]_vars

\* C5 witness: after the notice, an item was accepted into a queue below
\* capacity and a later call was rejected without a notice.
C5_Witness ==
    /\ last_add = "full_silent"
    /\ slow_logged = 1
    /\ tick_counter > maxsize

\* C6 as claimed: whenever a poll ends, the tick thread goes back to get().
C6_WorkerSurvivesPollError ==
    [][\A t \in TickThreads :
          (tick_thread[t].pc = "poll" /\ tick_thread'[t].pc # "poll")
              => tick_thread'[t].pc = "get"]_vars

\* The tick threads inside conn.tick_from_engine
PollsInProgress == {t \in TickThreads : tick_thread[t].pc = "poll"}

\* C7: at most one poll is in progress.
C7_PollsSequential == Cardinality(PollsInProgress) <= 1

\* C7 witness: a poll is in progress while two more requests wait.
C7_Witness ==
    /\ Cardinality(PollsInProgress) = 1
    /\ Len(tick_queue) >= 2

\* C8 as claimed: every item that is in the queue is eventually polled.
C8_AcceptedEventuallyPolled ==
    \A s \in 1..MaxTickCounter :
        (\E it \in Range(tick_queue) : it.seq = s)
            ~> (\E t \in TickThreads :
                    tick_thread[t].pc = "poll" /\ tick_thread[t].item.seq = s)

\* The connection tick() is at
TickConn == values(connobjs)[fg.idx]

\* What tick() does once the call for one connection has returned: the next
\* connection, or the return that leaves the timeout source installed
TickGoesOn ==
    IF fg.idx < Cardinality(connobjs)
    THEN fg'.caller = "tick" /\ fg'.pc = "full" /\ fg'.idx = fg.idx + 1
    ELSE fg' = FgIdle /\ timer \in timeouts'

\* C9 as claimed: every call tick() makes for a connection queues a request.
C9_TickQueuesForEveryConn ==
    [][(fg.caller = "tick" /\ fg.pc = "full" /\ FgSteps) => fg'.pc = "put"]_vars

\* C9 amended: tick() makes one call per connection of the connection
\* manager; the call queues one LOW request with stats_update and pollvm for
\* that connection unless the queue is at capacity, and then it queues
\* nothing; tick() leaves the timeout source installed.
C9_TickAttemptsEveryConn ==
    /\ [](fg.caller = "tick" =>
            /\ fg.idx \in 1..Cardinality(connobjs)
            /\ fg.obj = TickConn)
    /\ [][/\ (fg.pc = "idle" /\ fg'.caller = "tick") => fg'.idx = 1 /\ fg'.pc = "full"
          /\ (fg.caller = "tick" /\ fg.pc = "full" /\ FgSteps) =>
                IF Len(tick_queue) >= maxsize
                THEN tick_queue' = tick_queue /\ TickGoesOn
                ELSE /\ fg'.pc = "put" /\ fg'.caller = "tick" /\ fg'.idx = fg.idx
                     /\ fg'.item.prio = PRIO_LOW
                     /\ fg'.item.conn = TickConn
                     /\ fg'.item.kwargs = [stats_update |-> TRUE, pollvm |-> TRUE]
          /\ (fg.caller = "tick" /\ fg.pc = "put" /\ FgSteps) =>
                /\ tick_queue' = Append(tick_queue, fg.item)
                /\ TickGoesOn]_vars

\* C9 witness: a tick() that started after the construction has returned;
\* the requests for both known connections are the newest in the queue.
C9_Witness ==
    /\ fg = FgIdle
    /\ Cardinality(connobjs) = 2
    /\ tick_counter > 2
    /\ Len(tick_queue) >= 2
    /\ timer \in timeouts
    /\ LET n == Len(tick_queue)
       IN /\ tick_queue[n - 1] = [prio |-> PRIO_LOW, seq |-> tick_counter - 1,
                                  conn |-> values(connobjs)[1], kwargs |-> TickKwargs]
          /\ tick_queue[n] = [prio |-> PRIO_LOW, seq |-> tick_counter,
                              conn |-> values(connobjs)[2], kwargs |-> TickKwargs]

----------------------------------------------------------------------------
(* Properties: the window counter *)

\* C10: the window counter is the number of increments minus the number of
\* decrements, and it is never negative.
C10_WindowCounter == windows = n_inc - n_dec /\ windows >= 0

\* C10 witness: windows were opened and closed, one is still open.
C10_Witness == n_inc >= 2 /\ n_dec >= 1 /\ windows = 1

----------------------------------------------------------------------------
(* Properties: the exit of the application *)

\* The step in which a posted cb of _exit_app_if_no_windows runs
ExitCheckRuns ==
    /\ idle # <<>>
    /\ Head(idle) = "_exit_app_if_no_windows"
    /\ idle' = Tail(idle)

\* C11: the shutdown (cleanup, then application.quit()) is started at most
\* once, whatever checks and exit requests are still waiting; a decrement
\* that takes the window counter to 0 posts a check; a check that runs while
\* the counter is 0 or less and the systray exists with its icon not shown
\* starts the shutdown unless it was started before; and a posted check runs
\* (it starts the shutdown, or a window is counted or the icon is shown by
\* then, or the shutdown was started before).
C11_ShutdownOnce ==
    /\ [](n_quit <= 1 /\ (quit <=> n_quit = 1) /\ (quit => ~err))
    /\ [][/\ (windows > 0 /\ windows' <= 0) =>
                  \E i \in 1..Len(idle') : idle'[i] = "_exit_app_if_no_windows"
          /\ (ExitCheckRuns /\ windows <= 0 /\ systray = "hidden" /\ err) =>
                  /\ n_quit' = 1 /\ quit' /\ ~err'
                  /\ cleanup_calls'[1] = "err = None"
                  /\ cleanup_calls'[Len(cleanup_calls')] = "application.quit"
          /\ ~err => (n_quit' = n_quit /\ cleanup_calls' = cleanup_calls)]_vars
    /\ (windows = 0 /\ n_dec > 0 /\ systray = "hidden" /\ ~quit /\ idle # <<>>)
          ~> (quit \/ windows > 0 \/ systray = "visible")

\* C11 witness: two windows were closed one after the other, the check of
\* the first close has started the shutdown, and the check of the second
\* close and an exit request are still waiting.
C11_Witness ==
    /\ quit /\ n_quit = 1
    /\ n_dec >= 2
    /\ idle # <<>>
    /\ exit_reqs > 0

----------------------------------------------------------------------------
(* Properties: the registry *)

\* C12: _add_conn for a registered URI leaves the registry as it is (the
\* entry with its probe flag and its windows, and the callbacks connected
\* once); for an unknown URI it leaves the URI registered with a connection
\* object that has the five callbacks connected, each once, and a _ConnState
\* with the given probe flag and no window.  Every registered URI has the
\* five callbacks connected once.
C12_AddConnIdempotent ==
    /\ connstates = connobjs
    /\ \A uri \in Uris :
          handlers[uri] = IF uri \in connstates
                          THEN <<"vm-removed", "vm-renamed", "state-changed",
                                 "connect-error", "priority-tick">>
                          ELSE <<>>
    /\ \A uri \in Uris, probe \in BOOLEAN :
          IF uri \in connstates
          THEN _add_conn_registry(uri, probe) = Registry
          ELSE LET r == _add_conn_registry(uri, probe)
               IN /\ r.keys = connstates \cup {uri}
                  /\ r.conns = connobjs \cup {uri}
                  /\ Len(r.wired[uri]) = 5
                  /\ r.state[uri] = [probeConnection |-> probe,
                                      windowClone |-> FALSE,
                                      windowDetails |-> {},
                                      windowHost |-> FALSE]
                  /\ \A u \in Uris \ {uri} :
                        r.state[u] = connstate[u] /\ r.wired[u] = handlers[u]

\* C12 witness: a URI was registered as a probe and has a host window and a
\* details window, so that registering it again could change its entry;
\* another URI is not registered.
C12_Witness ==
    \E uri \in connstates :
        /\ connstate[uri].probeConnection
        /\ connstate[uri].windowHost
        /\ connstate[uri].windowDetails # {}
        /\ connstates # PressureUris

----------------------------------------------------------------------------
(* Properties: the CLI commands *)

\* The VMs of a list that a predicate holds for
VmsWith(vms, P(_)) == {vms[i] : i \in {j \in 1..Len(vms) : P(vms[j])}}

\* C17 as claimed: the result is a VM whose id equals the identifier if
\* there is one; else a VM whose name equals it if there is one, also for a
\* name made of digits; else a VM whose UUID equals it; else no VM.
C17_ResolvedIdNameUuid ==
    found.called =>
        LET byId == VmsWith(found.vms,
                        LAMBDA vm : isdigit(found.clistr) /\ vm.id = int(found.clistr))
            byName == VmsWith(found.vms, LAMBDA vm : vm.name = found.clistr)
            byUuid == VmsWith(found.vms, LAMBDA vm : vm.uuid = found.clistr)
        IN IF byId # {} THEN found.vm \in byId
           ELSE IF byName # {} THEN found.vm \in byName
           ELSE IF byUuid # {} THEN found.vm \in byUuid
           ELSE found.vm = NoVm

\* The CLI commands handled so far
Cmds == 1..n_cmds

\* Command c is deferred: its _cli_conn_connected_cb is connected
Deferred(c) == \E cb \in cli_cbs : cb.cmd = c

\* The step in which _handle_cli_command handles command c
Handles(c) == n_cmds' = c /\ n_cmds = c - 1

\* The step in which _cli_conn_connected_cb runs for command c
CliCbRuns(c) ==
    /\ fg.pc = "emit"
    /\ Head(emit_todo) = Handler("_cli_conn_connected_cb", c)
    /\ emit_todo' = Tail(emit_todo)

\* C14: a command with a window kind for a URI whose connection is
\* disconnected posts connect_to_uri, posts no _launch_cli_window and is
\* deferred; a deferred command has no window launched; its callback that
\* runs while the connection is connecting launches nothing and stays; its
\* callback that runs while the connection is active launches the window
\* and is disconnected; no command has its window launched twice.
C14_DeferredLaunchOnce ==
    /\ [](\A c \in Cmds : /\ cli[c].launched <= 1
                           /\ Deferred(c) => cli[c].deferred /\ cli[c].launched = 0)
    /\ [][\A c \in 1..MaxCliCommands :
            /\ (Handles(c) /\ cli'[c].show_window # "" /\ cli'[c].errors = 0
                   /\ conn_state[cli'[c].uri] = "disconnected") =>
                  /\ Len(idle_calls') = Len(idle_calls) + 1
                  /\ idle_calls'[Len(idle_calls')].fn = "connect_to_uri"
                  /\ idle_calls'[Len(idle_calls')].uri = cli'[c].uri
                  /\ Deferred(c)'
                  /\ visible' = visible
            /\ (CliCbRuns(c) /\ conn_state[cli[c].uri] = "connecting") =>
                  /\ cli'[c] = cli[c]
                  /\ Deferred(c)'
                  /\ visible' = visible
            /\ (CliCbRuns(c) /\ conn_state[cli[c].uri] = "active") =>
                  /\ cli'[c].launched = 1
                  /\ ~Deferred(c)'
            /\ (cli[c].deferred /\ cli'[c].launched # cli[c].launched) =>
                  /\ CliCbRuns(c)
                  /\ conn_state[cli[c].uri] = "active"]_vars

\* C14 witness: the console of a VM was asked for while the connection was
\* disconnected; the connection was opened and became active, and the
\* details window was launched by the callback, which is gone.
C14_Witness ==
    \E c \in Cmds :
        /\ cli[c].deferred /\ cli[c].opens = 1
        /\ cli[c].show_window = "console"
        /\ cli[c].launched = 1
        /\ ~Deferred(c)
        /\ "details" \in visible
        /\ n_sc >= 1 /\ sc_pending[cli[c].uri] = 0

\* C15: the callback of a deferred command that runs while the connection
\* is disconnected logs the error, launches nothing and is disconnected;
\* a command that failed this way never has a window launched, whatever
\* the connection does later.
C15_FailureNotRetried ==
    /\ [](\A c \in Cmds :
            cli[c].failed => /\ cli[c].launched = 0
                             /\ ~Deferred(c)
                             /\ cli[c].errors >= 1)
    /\ [][\A c \in 1..MaxCliCommands :
            (CliCbRuns(c) /\ conn_state[cli[c].uri] = "disconnected") =>
                /\ cli'[c].failed
                /\ cli'[c].errors = cli[c].errors + 1
                /\ cli'[c].launched = 0
                /\ visible' = visible /\ windows' = windows
                /\ ~Deferred(c)']_vars

\* C15 witness: a deferred command failed, and afterwards the connection
\* of its URI was opened again and is active, every "state-changed" handled.
C15_Witness ==
    \E c \in Cmds :
        /\ cli[c].failed
        /\ conn_state[cli[c].uri] = "active"
        /\ sc_pending[cli[c].uri] = 0
        /\ fg.pc = "idle"

\* The number of exit checks waiting in the idle queue
ChecksWaiting ==
    Cardinality({i \in 1..Len(idle) : idle[i] = "_exit_app_if_no_windows"})

\* C16: in the step that completes a command with a window kind (its
\* window is launched, or the launch, the callback or the handler raises),
\* an exit check is posted; and a check that waits while no window is
\* counted and the systray exists with its icon hidden leads to the exit,
\* unless a window is counted by the time the check runs.
C16_ExitCheckAfterCli ==
    /\ [][\A c \in 1..MaxCliCommands :
            (cli'[c].done /\ ~cli[c].done /\ cli'[c].show_window # "") =>
                /\ cli'[c].checks >= 1
                /\ Len(idle') >= Len(idle) + 1
                /\ idle'[Len(idle')] = "_exit_app_if_no_windows"]_vars
    /\ ((\E c \in Cmds : cli[c].done /\ cli[c].show_window # "")
          /\ ChecksWaiting > 0 /\ windows = 0 /\ systray = "hidden" /\ ~quit)
            ~> (quit \/ windows > 0)

\* C16 witness: a command with a window kind failed without a window (an
\* unknown VM, an unknown window kind, a failed connection or an exception
\* in the handler), and the application has quit.
C16_Witness ==
    /\ quit
    /\ windows = 0
    /\ \E c \in Cmds :
          /\ cli[c].done /\ cli[c].show_window # ""
          /\ cli[c].checks >= 1


\* Positions of a call in the record of the termination path
CallsAt(call) == {i \in 1..Len(cleanup_calls) : cleanup_calls[i] = call}

\* Every call a comes before every call b
CallsBefore(a, b) == \A i \in CallsAt(a), j \in CallsAt(b) : i < j

\* The calls that tear down the endpoints: their UI state, the registry and
\* the connection objects
EndpointCalls ==
    {"_cleanup_connstate", "_connstates = {}", "vmmConnectionManager.cleanup"}

\* C19, as stated: the termination path stops the timer, tears down the
\* endpoints' UI state and the endpoints, then releases the systray, then
\* signals the exit.  The code releases the systray before the endpoints.
C19_EndpointsBeforeSystray ==
    quit =>
      /\ \A e \in EndpointCalls : CallsBefore("source_remove(timer)", e)
      /\ \A e \in EndpointCalls : CallsBefore(e, "systray.cleanup")
      /\ CallsBefore("systray.cleanup", "application.quit")

\* C19, corrected: the termination path stops the timer, releases the
\* systray, tears down every registered endpoint's UI state, empties the
\* registry and cleans up the connection objects, then signals the exit as its
\* last step; after it the registry is empty.
C19_TerminationOrder ==
    [][n_quit' > n_quit =>
         /\ CallsBefore("source_remove(timer)", "systray.cleanup")'
         /\ \A e \in EndpointCalls : CallsBefore("source_remove(timer)", e)'
         /\ \A e \in EndpointCalls : CallsBefore("systray.cleanup", e)'
         /\ CallsBefore("_cleanup_connstate", "_connstates = {}")'
         /\ CallsBefore("_connstates = {}", "vmmConnectionManager.cleanup")'
         /\ Cardinality(CallsAt("_cleanup_connstate"))' = Cardinality(connstates)
         /\ CallsAt("application.quit")' = {Len(cleanup_calls')}
         /\ connstates' = {}
         /\ connobjs' = {}
         /\ timer # 0 => timer \notin timeouts'
         /\ systray' = "none"]_vars

\* The application quit with the timer running, a systray and two endpoints
C19_Witness ==
    /\ quit
    /\ CallsAt("source_remove(timer)") # {}
    /\ CallsAt("systray.cleanup") # {}
    /\ Cardinality(CallsAt("_cleanup_connstate")) >= 2
    /\ connstates = {}


\* The foreground thread takes _handle_tick_error from the idle queue
HandlesTickError ==
    /\ idle # <<>>
    /\ Head(idle) = "_handle_tick_error"
    /\ idle' = Tail(idle)

\* C20: when the foreground thread handles a poll error, the message goes
\* to a dialog if at least one window is counted at that moment, and to the
\* log only, with no dialog, if the window counter is 0 or less; no other
\* step shows a dialog.
C20_DialogOnlyWithWindows ==
    [][/\ HandlesTickError /\ windows >= 1 => err_out' = "dialog"
       /\ HandlesTickError /\ windows <= 0 => err_out' = "log"
       /\ ~HandlesTickError => err_out' = err_out]_vars

\* A window was opened and closed, and a poll error handled with no window
\* counted went to the log
C20_Witness ==
    /\ err_out = "log"
    /\ windows = 0
    /\ n_dec > 0


\* The position of a URI in the order of _connobjs
UriIndex(uri) == CHOOSE i \in DOMAIN UriOrder : UriOrder[i] = uri

\* The opens the autostart issued whose connection's "state-changed" did
\* not reach state_change_cb yet
OpensWaiting == {i \in DOMAIN auto_opens : auto_opens[i] \notin auto_seen}

\* C18: the autostart issues the opens in list order, one at a time: the
\* open of the next URI is issued only after state_change_cb received the
\* "state-changed" signal of every URI whose open was issued before.
C18_AutostartSerialized ==
    [][/\ \A i, j \in DOMAIN auto_opens' :
              i < j => UriIndex(auto_opens'[i]) < UriIndex(auto_opens'[j])
       /\ auto_opens' # auto_opens =>
              /\ OpensWaiting = {}
              /\ Len(auto_opens') = Len(auto_opens) + 1
       /\ Cardinality(OpensWaiting') <= 1]_vars

\* The autostart issued the open of a second URI, after the first became
\* active and its signal was received
C18_Witness ==
    /\ Len(auto_opens) >= 2
    /\ auto_opens[1] \in auto_seen
    /\ OpensWaiting = {2}


\* C21: every change of the polling interval cancels the timer and arms it
\* again with the new period: the call removes the source that was armed,
\* at most one source is armed at any time, it is the one self.timer names,
\* and once every change was handled its period is the interval configured
\* last.
C21_OneTimerLatestInterval ==
    [][/\ Cardinality(timeouts') <= 1
       /\ timeouts' \subseteq {timer'}
       /\ n_sched' > n_sched =>
              /\ timer \notin timeouts'
              /\ timeouts' = {timer'}
              /\ source_interval'[timer'] = stats_update_interval * 1000
       /\ interval_changed' = 0 /\ timeouts' # {} =>
              source_interval'[timer'] = stats_update_interval' * 1000]_vars

\* The interval changed twice, the timer was rescheduled twice and runs
\* with a period other than the one it started with
C21_Witness ==
    /\ n_sched >= 2
    /\ interval_changed = 0
    /\ timeouts = {timer}
    /\ source_interval[timer] # DefaultInterval * 1000


\* C22: decrement_window_counter only posts the exit check and never starts
\* the shutdown itself; the posted check decides from the window counter and
\* the systray as they are when it runs: it starts the shutdown when no
\* window is counted and the systray exists with its icon hidden, and not
\* when a window is counted by then, as after a window was opened between the
\* decrement to 0 and the check.
C22_ExitCheckDeferred ==
    [][/\ n_dec' > n_dec =>
              /\ quit' = quit /\ n_quit' = n_quit /\ err' = err
              /\ cleanup_calls' = cleanup_calls
              /\ idle' = Append(idle, "_exit_app_if_no_windows")
       /\ (ExitCheckRuns /\ windows > 0) =>
              quit' = quit /\ n_quit' = n_quit /\ err' = err
       /\ (ExitCheckRuns /\ windows <= 0 /\ systray = "hidden" /\ ~quit) =>
              quit']_vars

\* The systray icon is hidden, the manager window was closed (counter 0,
\* check posted) and shown again, and the check ran without an exit: with
\* the counter at 0 it would have started the shutdown
C22_Witness ==
    /\ systray = "hidden"
    /\ n_inc = 2 /\ n_dec = 1 /\ windows = 1
    /\ idle = <<>>
    /\ ~quit


\* The autostart issued n opens, the connection of the latest one is no
\* longer connecting and state_change_cb received its "state-changed"
OpenSettled(n) ==
    /\ Len(auto_opens) = n
    /\ auto_opens[n] \in auto_seen
    /\ conn_state[auto_opens[n]] # "connecting"

\* C23: the autostart makes progress: once state_change_cb received the
\* "state-changed" signal of the URI being opened, whether its connection
\* became active or ended disconnected, the open of the next autoconnect
\* URI is issued or, after the last one, the autostart thread ends.
C23_AutostartProgress ==
    \A n \in 1..Len(UriOrder) :
        OpenSettled(n) ~> (Len(auto_opens) > n \/ autostart.pc = "done")


\* C24: the tick queue never holds more than one pending request for the
\* same connection.
C24_NoDuplicatePerConn ==
    \A i, j \in DOMAIN tick_queue :
        i # j => tick_queue[i].conn # tick_queue[j].conn


\* A step of a background thread: the tick thread or the autostart thread
\* moves on
BackgroundStep ==
    \/ tick_thread' # tick_thread
    \/ autostart' # autostart /\ autostart.pc # "none"

\* C25: only the foreground thread touches the registry and the UI state.
\* A step of a background thread leaves the registry, the windows, the
\* window counter and the error output as they are, and what the autostart
\* thread does with the URI it took from its queue does not depend on the
\* registry: it goes on to connect its callback and to post the open,
\* whatever the foreground added or removed meanwhile.
C25_BackgroundConfined ==
    [][/\ BackgroundStep =>
              UNCHANGED <<connobjs, connstates, connstate, handlers, windows,
                          visible, cleaned, err_out>>
       /\ (autostart.pc = "got" /\ autostart' # autostart) =>
              autostart'.pc = "checked"
       /\ (autostart.pc = "checked" /\ autostart' # autostart) =>
              autostart'.pc = "connected"]_vars


\* _do_conn_changed runs as a handler of the emission in progress
DoConnChangedRuns ==
    /\ fg.pc = "emit"
    /\ Head(emit_todo).h = "_do_conn_changed"
    /\ emit_todo' = Tail(emit_todo)

\* C26: when "state-changed" is handled for a connection that is neither
\* active nor connecting, the windows of its URI are destroyed: afterwards
\* its details map is empty and it has no host window and no clone window;
\* handled for a connection that is active or connecting, all of its
\* windows stay as they are.
C26_DropDestroysWindows ==
    [][DoConnChangedRuns =>
          IF conn_state[fg.obj] \in {"active", "connecting"}
          THEN connstate' = connstate /\ cleaned' = cleaned
          ELSE /\ connstate'[fg.obj].windowDetails = {}
               /\ ~connstate'[fg.obj].windowHost
               /\ ~connstate'[fg.obj].windowClone]_vars


\* C27: a request that arrives while the queue is at capacity is dropped
\* whatever its priority: the call leaves the queue as it is (no item is
\* evicted or overtaken), assigns no sequence number, posts nothing that
\* would repeat the request, and the caller goes on without it.
C27_RejectionIgnoresPriority ==
    [][(fg.pc = "full" /\ full(tick_queue) /\ FgSteps) =>
          /\ tick_queue' = tick_queue
          /\ tick_counter' = tick_counter
          /\ idle' = idle /\ idle_calls' = idle_calls
          /\ fg' = AfterAdd(fg)
          /\ fg'.item = NoItem]_vars

\* A HIGH-priority request arrives at a queue that is at capacity and
\* holds a LOW-priority item
C27_Witness ==
    /\ fg.pc = "full"
    /\ fg.isprio
    /\ full(tick_queue)
    /\ \E i \in DOMAIN tick_queue : tick_queue[i].prio = PRIO_LOW

====
